---- MODULE Spec2Model ----
(***************************************************************************)
(* A model of the ym-player core: the YM2149 emulator (CYm2149Ex), the     *)
(* format decoder (CYmMusic.loadMemory / ymDecode / deInterleave) and the  *)
(* playback engine (CYmMusic.Update / player / SetMusicTime ...).          *)
(*                                                                         *)
(* Numbers.  TLC's integers are 32-bit signed.  Go's uint32 values that    *)
(* can reach 2^31 (phase accumulators, steps) are kept as a pair of 16-bit *)
(* halves [h, l]; everything else stays a plain integer and the inputs are *)
(* chosen so that it stays below 2^31.                                     *)
(***************************************************************************)
EXTENDS Integers, Sequences, FiniteSets, TLC

(***************************************************************************)
(* Bounds of the model.                                                    *)
(***************************************************************************)
\* Largest nbSample handed to one Update call.
MaxN == 2
\* Update is not taken any more once this many samples were asked for (caps
\* the depth of a run).
MaxEmit == 5
\* Largest time in VBL ticks (of 20 ms) handed to SetMusicTime.
MaxSeek == 1
\* The cap on the samples asked for in a run that records the played frames.
MaxEmitLoop == 11
\* The most bytes missing at the end of the payload of an LZH member.
MaxCut == 14

\* The most players one goroutine creates.
MaxCreate == 2

\* The most register writes, resets and samples of a chip.
MaxChipOps == 6

\* The most frame decodes, effect starts and effect stops of a song.
MaxFxOps == 3

(***************************************************************************)
(* Integer helpers.                                                        *)
(***************************************************************************)
Min(a, b) == IF a < b THEN a ELSE b

\* F applied to e: names a value that is used more than once.
Bind(e, F(_)) == F(e)

\* x & (1 << b) != 0 for a non-negative x.
BitSet(x, b) == (x \div (2^b)) % 2 = 1

\* x | (1 << b) and x &^ (1 << b) for a non-negative x.
OrBit(x, b) == IF BitSet(x, b) THEN x ELSE x + 2^b

ClearBit(x, b) == IF BitSet(x, b) THEN x - 2^b ELSE x

(***************************************************************************)
(* uint32 as two 16-bit halves.                                            *)
(***************************************************************************)
U32(h, l) == [h |-> h, l |-> l]

U32Zero == U32(0, 0)

\* A non-negative integer below 2^31 as a uint32.
ToU32(x) == U32((x \div 65536) % 65536, x % 65536)

\* a + b modulo 2^32.
U32Add(a, b) ==
  LET s == a.l + b.l
  IN  U32((a.h + b.h + (s \div 65536)) % 65536, s % 65536)

\* a < b.
U32Less(a, b) == a.h < b.h \/ (a.h = b.h /\ a.l < b.l)

\* Bit 31.
U32Bit31(a) == a.h >= 32768

\* a >> 27.
U32Shr27(a) == a.h \div 2048

\* a &^ (1 << 31).
U32Clear31(a) == U32(a.h % 32768, a.l)

\* a / d for a divisor 0 < d <= 32768 (the halves are divided in turn).
U32DivSmall(a, d) ==
  LET qh == a.h \div d
      r  == a.h % d
      ql == (r * 65536 + a.l) \div d
  IN  U32(qh, ql)

\* One round of long division: the quotient q and the remainder r of a
\* dividend by d become those of the dividend shifted left by s <= 7 bits
\* (r < d < 2^23, so r * 2^s stays below 2^30).  The quotient is kept modulo
\* 2^32.
ShlDivStep(qr, s, d) ==
  LET r2 == qr.r * (2^s)
      l2 == qr.q.l * (2^s) + (r2 \div d)
      h2 == qr.q.h * (2^s) + (l2 \div 65536)
  IN  [q |-> U32(h2 % 65536, l2 % 65536), r |-> r2 % d]

\* uint32((int64(c) << k) / int64(d)) for 0 <= c < 2^31, 0 < d < 2^23 and
\* k <= 28: long division, seven bits of the shift at a time.
ShlDiv(c, k, d) ==
  LET s1 == Min(k, 7)
      s2 == Min(k - s1, 7)
      s3 == Min(k - s1 - s2, 7)
      s4 == k - s1 - s2 - s3
  IN  ShlDivStep(ShlDivStep(ShlDivStep(ShlDivStep(
        [q |-> ToU32(c \div d), r |-> c % d], s1, d), s2, d), s3, d),
        s4, d).q

\* 2^32 - a modulo 2^32.
U32Neg(a) ==
  IF a.l = 0 THEN U32((65536 - a.h) % 65536, 0)
  ELSE U32(65535 - a.h, 65536 - a.l)

(***************************************************************************)
(* YM2149 emulator (CYm2149Ex).  Voices A, B, C are indices 1, 2, 3 of the *)
(* per-voice tuples; register r is registers[r + 1].                       *)
(***************************************************************************)
ATARI_CLOCK == 2000000

MFP_CLOCK == 2457600

DRUM_PREC == 15

DC_ADJUST_BUFFERLEN == 512

envWave ==
  << <<1, 0, 0, 0, 0, 0, 0, 0>>, <<1, 0, 0, 0, 0, 0, 0, 0>>,
     <<1, 0, 0, 0, 0, 0, 0, 0>>, <<1, 0, 0, 0, 0, 0, 0, 0>>,
     <<0, 1, 0, 0, 0, 0, 0, 0>>, <<0, 1, 0, 0, 0, 0, 0, 0>>,
     <<0, 1, 0, 0, 0, 0, 0, 0>>, <<0, 1, 0, 0, 0, 0, 0, 0>>,
     <<1, 0, 1, 0, 1, 0, 1, 0>>, <<1, 0, 0, 0, 0, 0, 0, 0>>,
     <<1, 0, 0, 1, 1, 0, 0, 1>>, <<1, 0, 1, 1, 1, 1, 1, 1>>,
     <<0, 1, 0, 1, 0, 1, 0, 1>>, <<0, 1, 1, 1, 1, 1, 1, 1>>,
     <<0, 1, 1, 0, 0, 1, 1, 0>>, <<0, 1, 0, 0, 0, 0, 0, 0>> >>

\* The table as the source text holds it, before NewYm2149Ex scales it.
ymVolumeTableRaw ==
  <<62, 161, 265, 377, 580, 774, 1155, 1575,
    2260, 3088, 4570, 6233, 9330, 13187, 21220, 32767>>

\* ymVolumeTable[i] once the first NewYm2149Ex of the process has run.
ymVolumeTable(i) == (ymVolumeTableRaw[i + 1] * 2) \div 6

\* envData[env][phase][idx] as initEnvelopeData leaves it: pEnv is reset only
\* after phase 1, so phase 0 fills indices 0..15 of envData[env][0], phase 1
\* fills indices 16..31 of envData[env][1], and the rest stays 0.
envData(env, phase, idx) ==
  LET pse == envWave[env + 1]
      a0  == pse[phase * 2 + 1]
      b0  == pse[phase * 2 + 2]
      i   == IF phase = 0 THEN idx ELSE idx - 16
      val == a0 * 15 + i * (b0 - a0)
  IN  IF (phase = 0 /\ idx >= 16) \/ (phase = 1 /\ idx < 16) THEN 0
      ELSE IF val < 0 THEN 0 ELSE IF val > 15 THEN 15 ELSE val

toneStepCompute(c, rHigh, rLow) ==
  LET per == ((rHigh % 16) * 256) + rLow
  IN  IF per <= 5 THEN U32Zero
      ELSE ShlDiv(c.internalClock, 15 + 16 - 3, per * c.replayFrequency)

noiseStepCompute(c, rNoise) ==
  LET per == rNoise % 32
  IN  IF per < 3 THEN U32Zero
      ELSE ShlDiv(c.internalClock, 16 - 1 - 3, per * c.replayFrequency)

envStepCompute(c, rHigh, rLow) ==
  LET per == (rHigh * 256) + rLow
  IN  IF per < 3 THEN U32Zero
      ELSE ShlDiv(c.internalClock, 16 + 16 - 9, per * c.replayFrequency)

\* rndCompute: the new rndRack and the mask it returns.
rndCompute(rndRack) ==
  LET rBit == ((rndRack % 2) + ((rndRack \div 4) % 2)) % 2
  IN  [rndRack |-> (rndRack \div 2) + rBit * 65536,
       mask    |-> IF rBit # 0 THEN 0 ELSE 65535]

NoEffect ==
  [Drum |-> FALSE, DrumSize |-> 0, DrumData |-> <<>>, DrumPos |-> U32Zero,
   DrumStep |-> U32Zero, Sid |-> FALSE, SidPos |-> U32Zero,
   SidStep |-> U32Zero, SidVol |-> 0]

SidStop(c, voice) ==
  [c EXCEPT !.specialEffect[voice + 1].Sid = FALSE]

DrumStop(c, voice) ==
  [c EXCEPT !.specialEffect[voice + 1].Drum = FALSE]

SyncBuzzerStop(c) ==
  [c EXCEPT !.bSyncBuzzer = FALSE, !.syncBuzzerPhase = U32Zero,
            !.syncBuzzerStep = U32Zero]

\* uint32(timerFreq) * (1 << 31) / uint32(replayFrequency): the product is
\* taken modulo 2^32, which keeps bit 0 of timerFreq only.
TimerStep(c, timerFreq) ==
  U32DivSmall(U32((timerFreq % 2) * 32768, 0), c.replayFrequency)

SidStart(c, voice, timerFreq, vol) ==
  [c EXCEPT !.specialEffect[voice + 1].SidStep = TimerStep(c, timerFreq),
            !.specialEffect[voice + 1].SidVol = vol % 16,
            !.specialEffect[voice + 1].Sid = TRUE]

SyncBuzzerStart(c, timerFreq, envShape) ==
  [c EXCEPT !.envShape = envShape % 16,
            !.syncBuzzerStep = TimerStep(c, timerFreq),
            !.syncBuzzerPhase = U32Zero,
            !.bSyncBuzzer = TRUE]

\* YmU32((drumFreq << DRUM_PREC) / replayFrequency) in int32 arithmetic: the
\* shift wraps modulo 2^32, a set bit 31 makes the dividend negative and the
\* quotient (truncated towards zero) is converted back to uint32.
DrumStepCompute(c, drumFreq) ==
  LET b   == drumFreq % 131072
      shl == U32(b \div 2, (b % 2) * 32768)
  IN  IF U32Bit31(shl)
      THEN U32Neg(U32DivSmall(U32Neg(shl), c.replayFrequency))
      ELSE U32DivSmall(shl, c.replayFrequency)

DrumStart(c, voice, pDrumBuffer, drumSize, drumFreq) ==
  IF Len(pDrumBuffer) > 0 /\ drumSize > 0
  THEN [c EXCEPT !.specialEffect[voice + 1].DrumData = pDrumBuffer,
                 !.specialEffect[voice + 1].DrumPos = U32Zero,
                 !.specialEffect[voice + 1].DrumSize = drumSize,
                 !.specialEffect[voice + 1].DrumStep = DrumStepCompute(c, drumFreq),
                 !.specialEffect[voice + 1].Drum = TRUE]
  ELSE c

\* The tone registers 0..5: the step of the voice is recomputed and a zero
\* step pins the phase accumulator to 1 << 31.
WriteTone(c, reg, data) ==
  Bind([c.registers EXCEPT ![reg + 1] =
          IF reg % 2 = 0 THEN data % 256 ELSE data % 16], LAMBDA regs :
  Bind(toneStepCompute(c, regs[2 * (reg \div 2) + 2],
                       regs[2 * (reg \div 2) + 1]), LAMBDA step :
    [c EXCEPT !.registers = regs,
              !.step[(reg \div 2) + 1] = step,
              !.pos[(reg \div 2) + 1] =
                 IF step = U32Zero THEN U32(32768, 0) ELSE @]))

\* Registers 8, 9, 10.
WriteVolume(c, reg, data) ==
  LET v == reg - 8
  IN  [c EXCEPT !.registers[reg + 1] = data % 32,
                !.vol[v + 1] = ymVolumeTable(data % 16),
                !.pVol[v + 1] = IF BitSet(data, 4) THEN "volE" ELSE "vol"]

WriteRegister(c, reg, data) ==
  CASE reg \in 0..5 -> WriteTone(c, reg, data)
    [] reg = 6 ->
         Bind(noiseStepCompute(c, data % 32), LAMBDA ns :
           [c EXCEPT !.registers[7] = data % 32,
                     !.noiseStep = ns,
                     !.noisePos = IF ns = U32Zero THEN U32Zero ELSE @,
                     !.currentNoise = IF ns = U32Zero THEN 65535 ELSE @])
    [] reg = 7 ->
         [c EXCEPT !.registers[8] = data % 256,
                   !.mixerT = [v \in 1..3 |->
                                 IF BitSet(data, v - 1) THEN 65535 ELSE 0],
                   !.mixerN = [v \in 1..3 |->
                                 IF BitSet(data, v + 2) THEN 65535 ELSE 0]]
    [] reg \in 8..10 -> WriteVolume(c, reg, data)
    [] reg \in 11..12 ->
         Bind([c.registers EXCEPT ![reg + 1] = data % 256], LAMBDA regs :
           [c EXCEPT !.registers = regs,
                     !.envStep = envStepCompute(c, regs[13], regs[12])])
    [] reg = 13 ->
         [c EXCEPT !.registers[14] = data % 16,
                   !.envPos = U32Zero,
                   !.envPhase = 0,
                   !.envShape = data % 16]
    [] OTHER -> c

RECURSIVE WriteZeros(_, _)
WriteZeros(c, i) ==
  IF i >= 14 THEN c ELSE WriteZeros(WriteRegister(c, i, 0), i + 1)

Reset(c) ==
  [SyncBuzzerStop(SidStop(SidStop(SidStop(
     WriteRegister(WriteZeros([c EXCEPT !.registers = [i \in 1..14 |-> 0]],
                              0), 7, 255), 0), 1), 2))
   EXCEPT !.currentNoise = 65535, !.rndRack = 1,
          !.envShape = 0, !.envPhase = 0, !.envPos = U32Zero,
          !.dcRing = <<>>, !.dcSum = 0,
          !.specialEffect = [v \in 1..3 |-> NoEffect],
          !.lowPassFilter = <<0, 0>>]

NewYm2149Ex(masterClock, prediv, playRate) ==
  Reset([bFilter |-> TRUE,
         internalClock |-> masterClock \div prediv,
         replayFrequency |-> playRate,
         registers |-> [i \in 1..14 |-> 0],
         step |-> [v \in 1..3 |-> U32Zero],
         pos |-> [v \in 1..3 |-> U32Zero],
         vol |-> [v \in 1..3 |-> 0],
         volE |-> 0,
         mixerT |-> [v \in 1..3 |-> 0],
         mixerN |-> [v \in 1..3 |-> 0],
         pVol |-> [v \in 1..3 |-> "vol"],
         noiseStep |-> U32Zero, noisePos |-> U32Zero,
         rndRack |-> 0, currentNoise |-> 0,
         envStep |-> U32Zero, envPos |-> U32Zero,
         envPhase |-> 0, envShape |-> 0,
         specialEffect |-> [v \in 1..3 |-> NoEffect],
         bSyncBuzzer |-> FALSE,
         syncBuzzerStep |-> U32Zero, syncBuzzerPhase |-> U32Zero,
         lowPassFilter |-> <<0, 0>>,
         dcRing |-> <<>>, dcSum |-> 0])

SetClock(c, clock) == [c EXCEPT !.internalClock = clock]

\* a | b and a & b for 16-bit masks that are 0 or 0xffff (every mixer mask,
\* the noise output and the low half of the sign word are).
MaskOr(a, b) == IF a > b THEN a ELSE b

MaskAnd(a, b) == IF a < b THEN a ELSE b

\* pos >> DRUM_PREC.
DrumIndex(p) == p.h * 2 + (p.l \div 32768)

sidVolumeCompute(c, voice) ==
  LET e == c.specialEffect[voice + 1]
  IN  IF e.Sid
      THEN WriteRegister(c, 8 + voice,
                         IF U32Bit31(e.SidPos) THEN e.SidVol ELSE 0)
      ELSE IF e.Drum
      THEN [c EXCEPT
             !.vol[voice + 1] =
                (e.DrumData[DrumIndex(e.DrumPos) + 1] * 255) \div 6,
             !.pVol[voice + 1] = "vol",
             !.mixerT[voice + 1] = 65535,
             !.mixerN[voice + 1] = 65535,
             !.specialEffect[voice + 1].DrumPos =
                U32Add(e.DrumPos, e.DrumStep),
             !.specialEffect[voice + 1].Drum =
                IF DrumIndex(U32Add(e.DrumPos, e.DrumStep)) >= e.DrumSize
                THEN FALSE ELSE @]
      ELSE c

\* DcAdjuster.AddSample and GetDcLevel.  dcRing holds the samples of the ring
\* in the order they were added, at most DC_ADJUST_BUFFERLEN of them: the
\* slot AddSample overwrites holds the sample added DC_ADJUST_BUFFERLEN calls
\* earlier, or 0.
AddSample(c, sample) ==
  LET full == Len(c.dcRing) = DC_ADJUST_BUFFERLEN
      old  == IF full THEN Head(c.dcRing) ELSE 0
  IN  [c EXCEPT !.dcSum = @ - old + sample,
                !.dcRing = Append(IF full THEN Tail(@) ELSE @, sample)]

\* sum / DC_ADJUST_BUFFERLEN, truncated towards zero as Go does.
GetDcLevel(c) ==
  IF c.dcSum >= 0 THEN c.dcSum \div DC_ADJUST_BUFFERLEN
  ELSE -((-c.dcSum) \div DC_ADJUST_BUFFERLEN)

\* (lp0 >> 2) + (lp1 >> 1) + (in >> 2): arithmetic shifts, \div rounds down.
LowPassFilter(c, in) ==
  [c |-> [c EXCEPT !.lowPassFilter = <<@[2], in>>],
   s |-> (c.lowPassFilter[1] \div 4) + (c.lowPassFilter[2] \div 2)
           + (in \div 4)]

\* A voice that leaves the sign of its phase accumulator out of the gate.
VoiceOutNoSign(c, v) ==
  LET bt == MaskAnd(c.mixerT[v], MaskOr(c.currentNoise, c.mixerN[v]))
      pv == IF c.pVol[v] = "volE" THEN c.volE ELSE c.vol[v]
  IN  IF bt = 65535 THEN pv ELSE 0

\* The amplitude voice v (1..3) adds to the sample.
VoiceOut(c, v) ==
  LET sign == IF U32Bit31(c.pos[v]) THEN 65535 ELSE 0
      bt   == MaskAnd(MaskOr(sign, c.mixerT[v]),
                      MaskOr(c.currentNoise, c.mixerN[v]))
      pv   == IF c.pVol[v] = "volE" THEN c.volE ELSE c.vol[v]
  IN  IF bt = 65535 THEN pv ELSE 0

\* The first part of nextSample: the chip once the noise generator, the
\* envelope volume and the special effects are updated.
sampleStart(c0) ==
  Bind(rndCompute(c0.rndRack), LAMBDA rnd :
  Bind(IF c0.noisePos.h # 0
       THEN [c0 EXCEPT !.rndRack = rnd.rndRack,
                       !.currentNoise =
                          IF rnd.mask = 65535 THEN 65535 - @ ELSE @,
                       !.noisePos = U32(0, @.l)]
       ELSE c0, LAMBDA c1 :
    sidVolumeCompute(sidVolumeCompute(sidVolumeCompute(
      [c1 EXCEPT !.volE = ymVolumeTable(
         envData(c1.envShape, c1.envPhase, U32Shr27(c1.envPos)))],
      0), 1), 2)))

\* nextSample: the chip after the sample and the sample.
nextSample(c0) ==
  Bind(sampleStart(c0), LAMBDA c3 :
  Bind(VoiceOut(c3, 1) + VoiceOut(c3, 2) + VoiceOut(c3, 3), LAMBDA vol :
  Bind(U32Add(c3.envPos, c3.envStep), LAMBDA ep :
  Bind(U32Add(c3.syncBuzzerPhase, c3.syncBuzzerStep), LAMBDA sb :
  Bind(AddSample(
         [c3 EXCEPT
            !.pos = [v \in 1..3 |-> U32Add(c3.pos[v], c3.step[v])],
            !.noisePos = U32Add(@, c3.noiseStep),
            !.envPos = IF U32Bit31(sb) THEN U32Zero ELSE ep,
            !.envPhase = IF U32Bit31(sb) THEN 0
                         ELSE IF @ = 0 /\ U32Less(ep, c3.envStep) THEN 1
                         ELSE @,
            !.syncBuzzerPhase = U32Clear31(sb),
            !.specialEffect = [v \in 1..3 |->
               [c3.specialEffect[v] EXCEPT
                  !.SidPos = U32Add(@, c3.specialEffect[v].SidStep)]]],
         vol), LAMBDA c5 :
  Bind(vol - GetDcLevel(c5), LAMBDA in :
    IF c5.bFilter THEN LowPassFilter(c5, in)
    ELSE [c |-> c5, s |-> in]))))))

\* CYm2149Ex.Update: nbSample samples, appended to out.
RECURSIVE ChipUpdate(_, _, _)
ChipUpdate(c, nbSample, out) ==
  IF nbSample <= 0 THEN [c |-> c, out |-> out]
  ELSE Bind(nextSample(c), LAMBDA r :
         ChipUpdate(r.c, nbSample - 1, Append(out, r.s)))

(***************************************************************************)
(* Format decoder.  A file is a sequence of bytes (0..255).  The byte      *)
(* readers are exact for a most significant byte below 128, which holds    *)
(* for every 32-bit field of the files of this model.                      *)
(***************************************************************************)
YM_V2 == 0

YM_V3 == 1

YM_V5 == 3

YM_V6 == 4

YM_VMAX == 5

YM_TRACKER1 == 38

YM_TRACKERMAX == 40

YM_MIX1 == 73

YM_MIXMAX == 75

\* Bit numbers of the attributes A_STREAMINTERLEAVED, A_DRUM4BITS and
\* A_TIMECONTROL (1 << iota).
A_STREAMINTERLEAVED == 0

A_DRUM4BITS == 2

A_TIMECONTROL == 3

\* The 4-byte tags, as the big-endian numbers e_YM2a ... e_YMT2.
e_YM2a == 1498231329

e_YM3a == 1498231585

e_YM3b == 1498231650

e_YM4a == 1498231841

e_YM5a == 1498232097

e_YM6a == 1498232353

e_MIX1 == 1296652337

e_YMT1 == 1498240049

e_YMT2 == 1498240050

readBigEndian32(d) ==
  IF Len(d) < 4 THEN 0
  ELSE d[1] * 16777216 + d[2] * 65536 + d[3] * 256 + d[4]

readBigEndian16(d) ==
  IF Len(d) < 2 THEN 0 ELSE d[1] * 256 + d[2]

readLittleEndian32(d) ==
  IF Len(d) < 4 THEN 0
  ELSE d[1] + d[2] * 256 + d[3] * 65536 + d[4] * 16777216

\* d[from:] of Go (from counted from 0).
SliceFrom(d, from) == SubSeq(d, from + 1, Len(d))

\* A bytes.Buffer over d: the unread part starts after pos bytes.
NewBuffer(d) == [d |-> d, pos |-> 0]

BufLen(b) == Len(b.d) - b.pos

\* buf.Read(p) with len(p) = k: p keeps its zeros where the buffer ran out.
BufRead(b, k) ==
  [data |-> [i \in 1..k |-> IF b.pos + i <= Len(b.d) THEN b.d[b.pos + i] ELSE 0],
   b    |-> [b EXCEPT !.pos = Min(b.pos + k, Len(b.d))]]

readMotorolaDword(b) ==
  LET r == BufRead(b, 4) IN [v |-> readBigEndian32(r.data), b |-> r.b]

readMotorolaWord(b) ==
  LET r == BufRead(b, 2) IN [v |-> readBigEndian16(r.data), b |-> r.b]

\* readNtString: only the position after the string matters here.
RECURSIVE readNtString(_)
readNtString(b) ==
  IF b.pos >= Len(b.d) THEN b
  ELSE IF b.d[b.pos + 1] = 0 THEN [b EXCEPT !.pos = @ + 1]
  ELSE readNtString([b EXCEPT !.pos = @ + 1])

IsLZHCompressed(d) ==
  /\ Len(d) >= 7
  /\ d[3] = 45 /\ d[4] = 108 /\ d[5] = 104 /\ d[7] = 45

(***************************************************************************)
(* The LZH decoder (lzh.Decoder): -lh0-, -lh4- and -lh5- members.          *)
(***************************************************************************)
NC == 510

NT == 19

NP == 14

NPT == 19

DICSIZ == 8192

CBIT == 9

TBIT == 5

PBIT == 4

BITBUFSIZ == 16

\* a | b for uint16 a and b.
Or16(a, b) ==
  LET B(i) == IF (a \div (2^i)) % 2 = 1 \/ (b \div (2^i)) % 2 = 1
              THEN 2^i ELSE 0
  IN  ((B(0) + B(1)) + (B(2) + B(3)) + ((B(4) + B(5)) + (B(6) + B(7))))
      + ((B(8) + B(9)) + (B(10) + B(11)) + ((B(12) + B(13)) + (B(14) + B(15))))

\* The least k with 2^k >= n, for n up to 2^13: a loop of at most n turns is
\* unfolded as 2^k turns, the turns after its exit leaving the state alone.
Log2Ceil(n) == CHOOSE k \in 0..13 : 2^k >= n /\ (k = 0 \/ 2^(k - 1) < n)

\* uint16(x) << n and uint16(x) >> n.
Shl16(x, n) == IF n >= 16 THEN 0 ELSE (x % (2^(16 - n))) * (2^n)

Shr16(x, n) == IF n >= 16 THEN 0 ELSE x \div (2^n)

\* A Decoder over the packed bytes inp; ipos bytes of inp have been handed to
\* the bit buffer (the 4 KiB read-ahead buffer holds the same bytes in the
\* same order).  fault records a run-time panic of the decoder; nzero counts
\* the 0 bytes fillbuf supplied after the input had run out.
NewDecoder(inp) ==
  [inp |-> inp, ipos |-> 0, nzero |-> 0, bitbuf |-> 0, subbitbuf |-> 0,
   bitcount |-> 0,
   left |-> [i \in 0..(2 * NC - 2) |-> 0],
   right |-> [i \in 0..(2 * NC - 2) |-> 0],
   c_len |-> [i \in 0..(NC - 1) |-> 0],
   pt_len |-> [i \in 0..(NPT - 1) |-> 0],
   c_table |-> [i \in 0..4095 |-> 0],
   pt_table |-> [i \in 0..255 |-> 0],
   blocksize |-> 0, decode_j |-> 0, decode_i |-> 0,
   outbuf |-> [i \in 0..(DICSIZ - 1) |-> 0],
   output |-> <<>>, fault |-> "none"]

\* fillbuf(n): once the input is used up the next byte is 0.
fillbuf(d0, n0) ==
  LET RECURSIVE fillbufLoop(_, _)
      fillbufLoop(d, n) ==
        IF n > d.bitcount
        THEN fillbufLoop(
               [d EXCEPT !.bitbuf = Or16(@, Shl16(d.subbitbuf, n - d.bitcount)),
                         !.subbitbuf = IF d.ipos < Len(d.inp)
                                       THEN d.inp[d.ipos + 1] ELSE 0,
                         !.ipos = IF d.ipos < Len(d.inp) THEN @ + 1 ELSE @,
                         !.nzero = IF d.ipos < Len(d.inp) THEN @ ELSE @ + 1,
                         !.bitcount = 8],
               n - d.bitcount)
        ELSE [d EXCEPT !.bitcount = @ - n,
                       !.bitbuf = Or16(@, d.subbitbuf \div (2^(d.bitcount - n)))]
  IN  fillbufLoop([d0 EXCEPT !.bitbuf = Shl16(@, n0)], n0)

getbits(d, n) == [x |-> Shr16(d.bitbuf, BITBUFSIZ - n), d |-> fillbuf(d, n)]

init_getbits(d) ==
  fillbuf([d EXCEPT !.bitbuf = 0, !.subbitbuf = 0, !.bitcount = 0], BITBUFSIZ)

\* make_table(nchar, bitlen, tablebits, table): the new table with the new
\* left and right arrays.  A pointer p names a cell of table, left or right.
\* The characters without a code are passed over; a code length above 16
\* indexes weight or start out of range.
make_table(d, nchar, bitlen, tablebits, table) ==
  LET count == [i \in 1..16 |->
                  Cardinality({c \in 0..(nchar - 1) : bitlen[c] = i})]
      st[i \in 1..17] ==
        IF i = 1 THEN 0
        ELSE (st[i - 1] + ((count[i - 1] * (2^(17 - i))) % 65536)) % 65536
      jutbits == 16 - tablebits
      i0 == st[tablebits + 1] \div (2^jutbits)
      Deref(s, p) ==
        IF p.a = "table" THEN s.table[p.i]
        ELSE IF p.a = "left" THEN s.left[p.i] ELSE s.right[p.i]
      Assign(s, p, v) ==
        IF p.a = "table" THEN [s EXCEPT !.table[p.i] = v]
        ELSE IF p.a = "left" THEN [s EXCEPT !.left[p.i] = v]
        ELSE [s EXCEPT !.right[p.i] = v]
      \* The walk for a code longer than tablebits: the tables, the pointer
      \* reached and the levels that remain.
      RECURSIVE makeWalk(_, _, _, _, _)
      makeWalk(s, p, k, mask, remaining) ==
        IF remaining = 0 THEN [s |-> s, p |-> p, remaining |-> 0]
        ELSE IF Deref(s, p) = 0 /\ s.avail >= 2 * NC - 1
        THEN [s |-> s, p |-> p, remaining |-> remaining]
        ELSE Bind(IF Deref(s, p) = 0
                  THEN [Assign([s EXCEPT !.right[s.avail] = 0,
                                         !.left[s.avail] = 0], p, s.avail)
                          EXCEPT !.avail = (@ + 1) % 65536]
                  ELSE s, LAMBDA s1 :
             IF Deref(s1, p) >= 2 * NC - 1
             THEN [s |-> s1, p |-> p, remaining |-> remaining]
             ELSE makeWalk(s1,
                           [a |-> IF (k \div mask) % 2 = 1 THEN "right"
                                  ELSE "left",
                            i |-> Deref(s1, p)],
                           (k * 2) % 65536, mask, remaining - 1))
      \* The first character from ch on that has a code, nchar without one.
      NextCoded(ch) ==
        IF \E c \in ch..(nchar - 1) : bitlen[c] # 0
        THEN CHOOSE c \in ch..(nchar - 1) :
               /\ bitlen[c] # 0
               /\ \A e \in ch..(c - 1) : bitlen[e] = 0
        ELSE nchar
      \* One turn of the "make table" loop, for the character s.ch.
      makeStep(s) ==
        Bind(s.ch, LAMBDA ch :
        Bind([s EXCEPT !.ch = NextCoded(ch + 1)], LAMBDA sn :
        IF bitlen[ch] > 16
        THEN [s EXCEPT !.fault = "index out of range"]
        ELSE Bind((s.start[bitlen[ch]] + s.weight[bitlen[ch]]) % 65536,
                  LAMBDA nextcode :
          IF bitlen[ch] <= tablebits
          THEN [sn EXCEPT !.table = [i \in DOMAIN s.table |->
                                       IF i >= s.start[bitlen[ch]]
                                          /\ i < nextcode
                                       THEN ch ELSE s.table[i]],
                          !.start[bitlen[ch]] = nextcode]
          ELSE IF s.start[bitlen[ch]] \div (2^jutbits) >= 2^tablebits
          THEN sn
          ELSE Bind(makeWalk(sn, [a |-> "table",
                                  i |-> s.start[bitlen[ch]] \div (2^jutbits)],
                             s.start[bitlen[ch]], 2^(15 - tablebits),
                             bitlen[ch] - tablebits), LAMBDA w :
               [(IF w.remaining = 0 THEN Assign(w.s, w.p, ch) ELSE w.s)
                  EXCEPT !.start[bitlen[ch]] = nextcode]))))
      RECURSIVE makeLoop(_, _)
      makeLoop(s, k) ==
        CASE s.ch >= nchar \/ s.fault # "none" -> s
          [] k = 0 -> makeStep(s)
          [] OTHER -> makeLoop(makeLoop(s, k - 1), k - 1)
  IN  makeLoop(
        [table  |-> IF i0 # 0
                    THEN [j \in DOMAIN table |->
                            IF j >= i0 /\ j < 2^tablebits THEN 0 ELSE table[j]]
                    ELSE table,
         left   |-> d.left, right |-> d.right,
         start  |-> [i \in 0..17 |->
                       IF i = 0 THEN 0
                       ELSE IF i <= tablebits THEN st[i] \div (2^jutbits)
                       ELSE st[i]],
         weight |-> [i \in 0..16 |->
                       IF i = 0 THEN 0
                       ELSE IF i <= tablebits THEN 2^(tablebits - i)
                       ELSE 2^(16 - i)],
         avail  |-> nchar, fault |-> "none",
         ch     |-> NextCoded(0)],
        Log2Ceil(Cardinality({c \in 0..(nchar - 1) : bitlen[c] # 0})))

\* read_pt_len(nn, nbit, i_special).  A store to pt_len past its NPT cells
\* panics.
read_pt_len(d0, nn, nbit, i_special) ==
  LET \* The set bits of bitbuf from bit b downwards, to the first clear bit.
      RECURSIVE OnesFrom(_, _)
      OnesFrom(bitbuf, b) ==
        IF b < 0 \/ (bitbuf \div (2^b)) % 2 = 0 THEN 0
        ELSE 1 + OnesFrom(bitbuf, b - 1)
      \* pt_len[from .. from + k - 1] = 0.
      ZeroPtLen(d, from, k) ==
        IF from + k > NPT THEN [d EXCEPT !.fault = "index out of range"]
        ELSE [d EXCEPT !.pt_len = [j \in DOMAIN d.pt_len |->
                                     IF j >= from /\ j < from + k THEN 0
                                     ELSE d.pt_len[j]]]
      \* The loop "for i < int(n)".
      RECURSIVE readPtLoop(_, _, _)
      readPtLoop(d, i, n) ==
        IF d.fault # "none" \/ i >= n THEN [d |-> d, i |-> i]
        ELSE Bind(IF Shr16(d.bitbuf, BITBUFSIZ - 3) = 7
                  THEN 7 + OnesFrom(d.bitbuf, BITBUFSIZ - 1 - 3)
                  ELSE Shr16(d.bitbuf, BITBUFSIZ - 3), LAMBDA c :
             Bind(fillbuf(d, IF c < 7 THEN 3 ELSE c - 3), LAMBDA d1 :
             IF i >= NPT
             THEN [d |-> [d1 EXCEPT !.fault = "index out of range"], i |-> i]
             ELSE IF i + 1 = i_special
             THEN Bind(getbits([d1 EXCEPT !.pt_len[i] = c], 2), LAMBDA g :
                    readPtLoop(ZeroPtLen(g.d, i + 1, g.x), i + 1 + g.x, n))
             ELSE readPtLoop([d1 EXCEPT !.pt_len[i] = c], i + 1, n)))
  IN  Bind(getbits(d0, nbit), LAMBDA gn :
      IF gn.x = 0
      THEN Bind(getbits(gn.d, nbit), LAMBDA gc :
             [gc.d EXCEPT !.pt_len = [j \in DOMAIN gc.d.pt_len |->
                                        IF j < nn THEN 0 ELSE gc.d.pt_len[j]],
                          !.pt_table = [j \in 0..255 |-> gc.x]])
      ELSE Bind(readPtLoop(gn.d, 0, gn.x), LAMBDA r :
           IF r.d.fault # "none" THEN r.d
           ELSE Bind(IF r.i < nn THEN ZeroPtLen(r.d, r.i, nn - r.i) ELSE r.d,
                     LAMBDA d2 :
                Bind(make_table(d2, nn, d2.pt_len, 8, d2.pt_table), LAMBDA t :
                  [d2 EXCEPT !.pt_table = t.table, !.left = t.left,
                             !.right = t.right, !.fault = t.fault]))))

\* The walk down left and right from table entry c while c >= limit (in
\* read_c_len, decode_c and decode_p).
RECURSIVE TreeWalk(_, _, _, _)
TreeWalk(d, c, limit, mask) ==
  IF c < limit THEN c
  ELSE TreeWalk(d, IF mask # 0 /\ (d.bitbuf \div mask) % 2 = 1
                   THEN d.right[c] ELSE d.left[c],
                limit, mask \div 2)

\* read_c_len.  A store to c_len past its NC cells panics.
read_c_len(d0) ==
  LET \* c_len[from .. from + k - 1] = 0.
      ZeroCLen(d, from, k) ==
        IF from + k > NC THEN [d EXCEPT !.fault = "index out of range"]
        ELSE [d EXCEPT !.c_len = [j \in DOMAIN d.c_len |->
                                    IF j >= from /\ j < from + k THEN 0
                                    ELSE d.c_len[j]]]
      \* One turn of the loop "for i < int(n)".
      readCStep(d, i) ==
        Bind(TreeWalk(d, d.pt_table[Shr16(d.bitbuf, BITBUFSIZ - 8)], NT,
                      2^(BITBUFSIZ - 1 - 8)), LAMBDA c :
        Bind(fillbuf(d, d.pt_len[c]), LAMBDA d1 :
        CASE c = 0 -> [d |-> ZeroCLen(d1, i, 1), i |-> i + 1]
          [] c = 1 -> Bind(getbits(d1, 4), LAMBDA g :
                        [d |-> ZeroCLen(g.d, i, g.x + 3), i |-> i + g.x + 3])
          [] c = 2 -> Bind(getbits(d1, CBIT), LAMBDA g :
                        [d |-> ZeroCLen(g.d, i, g.x + 20), i |-> i + g.x + 20])
          [] c > 2 /\ i >= NC ->
               [d |-> [d1 EXCEPT !.fault = "index out of range"], i |-> i]
          [] OTHER -> [d |-> [d1 EXCEPT !.c_len[i] = c - 2], i |-> i + 1]))
      RECURSIVE readCLoop(_, _, _)
      readCLoop(s, n, k) ==
        CASE s.i >= n \/ s.d.fault # "none" -> s
          [] k = 0 -> readCStep(s.d, s.i)
          [] OTHER -> readCLoop(readCLoop(s, n, k - 1), n, k - 1)
  IN  Bind(getbits(d0, CBIT), LAMBDA gn :
      IF gn.x = 0
      THEN Bind(getbits(gn.d, CBIT), LAMBDA gc :
             [gc.d EXCEPT !.c_len = [j \in 0..(NC - 1) |-> 0],
                          !.c_table = [j \in 0..4095 |-> gc.x]])
      ELSE Bind(readCLoop([d |-> gn.d, i |-> 0], gn.x, Log2Ceil(gn.x)),
                LAMBDA r :
           IF r.d.fault # "none" THEN r.d
           ELSE Bind(IF r.i < NC THEN ZeroCLen(r.d, r.i, NC - r.i) ELSE r.d,
                     LAMBDA d2 :
                Bind(make_table(d2, NC, d2.c_len, 12, d2.c_table), LAMBDA t :
                  [d2 EXCEPT !.c_table = t.table, !.left = t.left,
                             !.right = t.right, !.fault = t.fault]))))

\* decode_c: the block header is read when blocksize is 0.
decode_c(d) ==
  LET readBlock ==
        Bind(getbits(d, 16), LAMBDA g :
        Bind(read_pt_len([g.d EXCEPT !.blocksize = g.x], NT, TBIT, 3),
             LAMBDA d1 :
        IF d1.fault # "none" THEN d1
        ELSE Bind(read_c_len(d1), LAMBDA d2 :
             IF d2.fault # "none" THEN d2
             ELSE read_pt_len(d2, NP, PBIT, 0 - 1))))
  IN  Bind(IF d.blocksize = 0 THEN readBlock ELSE d, LAMBDA d1 :
      IF d1.fault # "none" THEN [j |-> 0, d |-> d1]
      ELSE Bind(TreeWalk(d1, d1.c_table[Shr16(d1.bitbuf, BITBUFSIZ - 12)], NC,
                         2^(BITBUFSIZ - 1 - 12)), LAMBDA j :
           [j |-> j,
            d |-> fillbuf([d1 EXCEPT !.blocksize = (@ + 65535) % 65536],
                          d1.c_len[j])]))

decode_p(d) ==
  Bind(TreeWalk(d, d.pt_table[Shr16(d.bitbuf, BITBUFSIZ - 8)], NP,
                2^(BITBUFSIZ - 1 - 8)), LAMBDA j :
  Bind(fillbuf(d, d.pt_len[j]), LAMBDA d1 :
  IF j = 0 THEN [j |-> 0, d |-> d1]
  ELSE Bind(getbits(d1, j - 1), LAMBDA g :
         [j |-> 2^(j - 1) + g.x, d |-> g.d])))

\* decodeBuffer(count): the rest of a pending match, then the first turn of
\* the second loop (the one that reads a block header when none is open) and
\* the turns after it.
decodeBuffer(d0, count) ==
  LET \* The copy loop: a match is copied while decode_j > 0 and the buffer
      \* has room.
      RECURSIVE copyLoop(_, _)
      copyLoop(s, k) ==
        CASE s.r >= count \/ s.d.decode_j <= 0 -> s
          [] k = 0 ->
               [d |-> [s.d EXCEPT !.outbuf[s.r] = s.d.outbuf[s.d.decode_i],
                                  !.decode_i = (@ + 1) % DICSIZ,
                                  !.decode_j = @ - 1],
                r |-> s.r + 1]
          [] OTHER -> copyLoop(copyLoop(s, k - 1), k - 1)
      \* One turn of the second loop: a literal, or a match and its copy.
      decodeStep(d, r) ==
        Bind(decode_c(d), LAMBDA c :
        CASE c.d.fault # "none" -> [d |-> c.d, r |-> r]
          [] c.d.fault = "none" /\ c.j <= 255 ->
               [d |-> [c.d EXCEPT !.outbuf[r] = c.j], r |-> r + 1]
          [] OTHER ->
               Bind(decode_p([c.d EXCEPT !.decode_j = c.j - 253]), LAMBDA p :
                 copyLoop([d |-> [p.d EXCEPT !.decode_i =
                                    (r - p.j - 1 + 2 * DICSIZ) % DICSIZ],
                           r |-> r], Log2Ceil(c.j - 253))))
      RECURSIVE decodeLoop(_, _)
      decodeLoop(s, k) ==
        CASE s.r >= count \/ s.d.fault # "none" -> s
          [] k = 0 -> decodeStep(s.d, s.r)
          [] OTHER -> decodeLoop(decodeLoop(s, k - 1), k - 1)
  IN  Bind(copyLoop([d |-> d0, r |-> 0], Log2Ceil(d0.decode_j)), LAMBDA s0 :
        decodeLoop(decodeLoop(s0, 0), Log2Ceil(count)).d)

\* The loop of decode(origSize): DICSIZ bytes at a time into the output.
RECURSIVE decodeFrom(_, _)
decodeFrom(d, origSize) ==
  IF origSize <= 0 \/ d.fault # "none" THEN d
  ELSE Bind(decodeBuffer(d, Min(origSize, DICSIZ)), LAMBDA d1 :
       IF d1.fault # "none" THEN d1
       ELSE decodeFrom([d1 EXCEPT !.output =
                          @ \o [i \in 1..Min(origSize, DICSIZ) |->
                                  d1.outbuf[i - 1]]],
                       origSize - Min(origSize, DICSIZ)))

\* A decode that stops one byte early.
decodeOneShort(d, origSize) ==
  decodeFrom([init_getbits(d) EXCEPT !.blocksize = 0, !.decode_j = 0],
             origSize - 1)

decode(d, origSize) ==
  decodeFrom([init_getbits(d) EXCEPT !.blocksize = 0, !.decode_j = 0],
             origSize)

\* The offset of the first "-lh?-" member header of data, -1 without one.
HeaderStart(data) ==
  LET Mark(i) == data[i + 3] = 45 /\ data[i + 4] = 108 /\ data[i + 5] = 104
                 /\ data[i + 7] = 45
  IN  IF \E i \in 0..(Len(data) - 7) : Mark(i)
      THEN CHOOSE i \in 0..(Len(data) - 7) :
             Mark(i) /\ \A e \in 0..(i - 1) : ~Mark(e)
      ELSE 0 - 1

\* The bits the codes decoded so far took beyond the last bit of the input:
\* 8 bits a byte went into the bit buffer, bitcount bits of the latest byte
\* and the 16 bits of bitbuf are still unused.
BitsPastInput(d) == 8 * (d.ipos + d.nzero) - d.bitcount - 16 - 8 * Len(d.inp)

\* The parsed member header of s (s starts at the header): the two sizes and
\* the bytes after the header.
Header(s) ==
  [packed |-> readLittleEndian32(SubSeq(s, 8, 11)),
   orig   |-> readLittleEndian32(SubSeq(s, 12, 15)),
   body   |-> SliceFrom(s, IF s[1] + 2 - 15 > 0 THEN Min(s[1] + 2, Len(s))
                           ELSE 15)]

\* lzh.Decompress(data): the bytes, the error and a panic of the decoder.
\* starved tells that the payload ended before the member was unpacked.
Decompress(data) ==
  CASE Len(data) < 7 ->
         [out |-> <<>>, err |-> "data too small", fault |-> "none",
          starved |-> FALSE]
    [] Len(data) >= 7 /\ HeaderStart(data) < 0 ->
         [out |-> <<>>, err |-> "LZH header not found", fault |-> "none",
          starved |-> FALSE]
    [] OTHER ->
       Bind(SliceFrom(data, HeaderStart(data)), LAMBDA s :
       CASE s[6] \notin {48, 52, 53} ->
              [out |-> <<>>, err |-> "unsupported method", fault |-> "none",
               starved |-> FALSE]
         [] s[6] \in {48, 52, 53} /\ Len(s) < 15 ->
              [out |-> <<>>, err |-> "EOF", fault |-> "none",
               starved |-> FALSE]
         [] s[6] = 48 /\ Len(s) >= 15 ->
              IF Len(Header(s).body) < Header(s).orig
              THEN [out |-> <<>>, err |-> "incomplete data",
                    fault |-> "none", starved |-> TRUE]
              ELSE [out |-> SubSeq(Header(s).body, 1, Header(s).orig),
                    err |-> "none", fault |-> "none", starved |-> FALSE]
         [] OTHER ->
              Bind(decode(NewDecoder(SubSeq(Header(s).body, 1,
                                            Min(Header(s).packed,
                                                Len(Header(s).body)))),
                          Header(s).orig), LAMBDA d :
                [out |-> IF d.fault = "none" THEN d.output ELSE <<>>,
                 err |-> "none", fault |-> d.fault,
                 starved |-> d.fault = "none" /\ BitsPastInput(d) > 0]))

(***************************************************************************)
(* CYmMusic.                                                               *)
(***************************************************************************)
NewYmMusic(replayRate) ==
  LET rate == IF replayRate <= 0 THEN 44100 ELSE replayRate
  IN  [ymChip |-> NewYm2149Ex(ATARI_CLOCK, 1, rate),
       replayRate |-> rate,
       songType |-> 0, nbFrame |-> 0, loopFrame |-> 0, currentFrame |-> 0,
       nbDrum |-> 0, pDrumTab |-> <<>>, pDataStream |-> <<>>,
       bLoop |-> FALSE, fileSize |-> 0, playerRate |-> 0, attrib |-> 0,
       bMusicOk |-> FALSE, bPause |-> FALSE, bMusicOver |-> FALSE,
       streamInc |-> 0, innerSamplePos |-> 0,
       pSongType |-> "", mixPos |-> -1, iMusicPosInMs |-> 0]

unLoad(m) ==
  [m EXCEPT !.bMusicOk = FALSE, !.bPause = TRUE, !.bMusicOver = FALSE,
            !.pSongType = "", !.pDataStream = <<>>, !.pDrumTab = <<>>,
            !.nbDrum = 0]

stop(m) ==
  [m EXCEPT !.bPause = TRUE, !.currentFrame = 0, !.iMusicPosInMs = 0,
            !.mixPos = -1]

play(m) == [m EXCEPT !.bPause = FALSE]

pause(m) == [m EXCEPT !.bPause = TRUE]

SetLoopMode(m, bLoop) == [m EXCEPT !.bLoop = bLoop]

IsSeekable(m) == BitSet(m.attrib, A_TIMECONTROL)

\* deInterleave with the flag cleared and the stream left register-major.
deInterleaveFlagOnly(m) ==
  IF ~BitSet(m.attrib, A_STREAMINTERLEAVED)
  THEN [m |-> m, err |-> "none", fault |-> "none"]
  ELSE IF m.nbFrame > 0 /\ m.streamInc > 0
          /\ Len(m.pDataStream) < m.nbFrame * m.streamInc
  THEN [m |-> m, err |-> "none", fault |-> "index out of range"]
  ELSE [m |-> [m EXCEPT !.pDataStream =
                          SubSeq(@, 1, m.nbFrame * m.streamInc),
                        !.attrib = ClearBit(@, A_STREAMINTERLEAVED)],
        err |-> "none", fault |-> "none"]

\* deInterleave: reading pDataStream[srcOffset + frame] past its end panics.
deInterleave(m) ==
  IF ~BitSet(m.attrib, A_STREAMINTERLEAVED)
  THEN [m |-> m, err |-> "none", fault |-> "none"]
  ELSE IF m.nbFrame > 0 /\ m.streamInc > 0
          /\ Len(m.pDataStream) < m.nbFrame * m.streamInc
  THEN [m |-> m, err |-> "none", fault |-> "index out of range"]
  ELSE LET tmpBuff == [k \in 1..(m.nbFrame * m.streamInc) |->
                         LET frame == (k - 1) \div m.streamInc
                             voice == (k - 1) % m.streamInc
                         IN  m.pDataStream[voice * m.nbFrame + frame + 1]]
       IN  [m |-> [m EXCEPT !.pDataStream = tmpBuff,
                            !.attrib = ClearBit(@, A_STREAMINTERLEAVED)],
            err |-> "none", fault |-> "none"]

\* The YM2!, YM3! and YM3b cases of ymDecode.
DecodeYm23(m, big, songType, loopFrame, pSongType) ==
  deInterleave(
    [m EXCEPT !.songType = songType,
              !.nbFrame = (m.fileSize - 4) \div 14,
              !.loopFrame = loopFrame,
              !.ymChip = SetClock(@, ATARI_CLOCK),
              !.playerRate = 50,
              !.pDataStream = SliceFrom(big, 4),
              !.streamInc = 14,
              !.nbDrum = 0,
              !.attrib = OrBit(OrBit(0, A_STREAMINTERLEAVED), A_TIMECONTROL),
              !.pSongType = pSongType])

\* The drums of a YM5!/YM6! header: the buffer after them and the table.
RECURSIVE LoadDrums(_, _, _, _, _)
LoadDrums(b, i, nbDrum, attrib, tab) ==
  IF i >= nbDrum THEN [b |-> b, tab |-> tab]
  ELSE Bind(readMotorolaDword(b), LAMBDA sz :
       Bind(BufRead(sz.b, sz.v), LAMBDA rd :
         IF sz.v > 0
         THEN LoadDrums(rd.b, i + 1, nbDrum, attrib,
                Append(tab,
                  [Size |-> sz.v,
                   Data |-> IF BitSet(attrib, A_DRUM4BITS)
                            THEN [j \in 1..sz.v |->
                                    ymVolumeTable(rd.data[j] % 16) \div 128]
                            ELSE rd.data,
                   RepLen |-> 0]))
         ELSE LoadDrums(sz.b, i + 1, nbDrum, attrib,
                Append(tab, [Size |-> 0, Data |-> <<>>, RepLen |-> 0]))))

\* The YM5!/YM6! case of ymDecode; pBigMalloc[4:12] panics on a buffer of
\* fewer than 12 bytes.
DecodeYm56(m, big, id) ==
  IF Len(big) < 12
  THEN [m |-> m, err |-> "none", fault |-> "slice bounds out of range"]
  ELSE IF SubSeq(big, 5, 12) # <<76, 101, 79, 110, 65, 114, 68, 33>>
  THEN [m |-> m, err |-> "not a valid YM format", fault |-> "none"]
  ELSE
    Bind(readMotorolaDword(NewBuffer(SliceFrom(big, 12))), LAMBDA nbFrame :
    Bind(readMotorolaDword(nbFrame.b), LAMBDA attrib :
    Bind(readMotorolaWord(attrib.b), LAMBDA nbDrum :
    Bind(readMotorolaDword(nbDrum.b), LAMBDA clock :
    Bind(readMotorolaWord(clock.b), LAMBDA rate :
    Bind(readMotorolaDword(rate.b), LAMBDA loop :
    Bind(readMotorolaWord(loop.b), LAMBDA skip :
    Bind(LoadDrums([skip.b EXCEPT !.pos = Min(@ + skip.v, Len(skip.b.d))],
                   0, nbDrum.v, OrBit(attrib.v, A_TIMECONTROL), <<>>),
         LAMBDA drums :
    Bind(readNtString(readNtString(readNtString(drums.b))), LAMBDA b2 :
      deInterleave(
        [m EXCEPT !.nbFrame = nbFrame.v,
                  !.attrib = IF nbDrum.v > 0
                             THEN ClearBit(OrBit(attrib.v, A_TIMECONTROL),
                                           A_DRUM4BITS)
                             ELSE OrBit(attrib.v, A_TIMECONTROL),
                  !.nbDrum = nbDrum.v,
                  !.ymChip = SetClock(@, clock.v),
                  !.playerRate = rate.v,
                  !.loopFrame = loop.v,
                  !.pDrumTab = drums.tab,
                  !.songType = IF id = e_YM6a THEN YM_V6 ELSE YM_V5,
                  !.pSongType = IF id = e_YM6a THEN "YM 6" ELSE "YM 5",
                  !.pDataStream = SliceFrom(b2.d, b2.pos),
                  !.streamInc = 16]))))))))))

\* ymDecode on the depacked buffer big.  YM3b reads its loop frame at
\* pBigMalloc[fileSize-4:], which panics when fileSize - 4 is no index of it.
ymDecode(m, big) ==
  IF Len(big) < 4
  THEN [m |-> m, err |-> "file too small", fault |-> "none"]
  ELSE LET id == readBigEndian32(SubSeq(big, 1, 4))
       IN  CASE id = e_YM2a -> DecodeYm23(m, big, YM_V2, 0, "YM 2")
             [] id = e_YM3a -> DecodeYm23(m, big, YM_V3, 0, "YM 3")
             [] id = e_YM3b ->
                  IF m.fileSize - 4 < 0 \/ m.fileSize - 4 > Len(big)
                  THEN [m |-> m, err |-> "none",
                        fault |-> "slice bounds out of range"]
                  ELSE DecodeYm23(m, big, YM_V3,
                         readLittleEndian32(SliceFrom(big, m.fileSize - 4)),
                         "YM 3b (loop)")
             [] id \in {e_YM5a, e_YM6a} -> DecodeYm56(m, big, id)
             [] id = e_YM4a ->
                  [m |-> m, err |-> "YM4 format not yet supported",
                   fault |-> "none"]
             [] OTHER ->
                  [m |-> m, err |-> "unknown YM format", fault |-> "none"]

\* depackFile: a buffer of 22 bytes or more that carries the "-lh?-" mark is
\* unpacked, any other buffer is handed on as it is.
depackFile(data) ==
  IF Len(data) >= 22 /\ IsLZHCompressed(data)
  THEN Bind(Decompress(data), LAMBDA r :
         IF r.err # "none"
         THEN [r EXCEPT !.err = "LZH decompression failed"]
         ELSE r)
  ELSE [out |-> data, err |-> "none", fault |-> "none", starved |-> FALSE]

\* loadMemory: fileSize is the length of the buffer handed in and keeps that
\* value when depackFile replaces the buffer.
loadMemory(m, data) ==
  Bind(depackFile(data), LAMBDA z :
  IF z.err # "none" \/ z.fault # "none"
  THEN [m |-> [unLoad(stop(m)) EXCEPT !.fileSize = Len(data)],
        err |-> z.err, fault |-> z.fault]
  ELSE Bind(ymDecode([unLoad(stop(m)) EXCEPT !.fileSize = Len(data)], z.out),
            LAMBDA r :
    IF r.err # "none" \/ r.fault # "none" THEN r
    ELSE [m |-> [r.m EXCEPT !.ymChip = Reset(@), !.bMusicOk = TRUE,
                            !.bPause = FALSE],
          err |-> "none", fault |-> "none"]))

IsYMFile(data) ==
  IF Len(data) < 4 THEN FALSE
  ELSE readBigEndian32(SubSeq(data, 1, 4)) \in
         {e_YM2a, e_YM3a, e_YM3b, e_YM4a, e_YM5a, e_YM6a, e_MIX1, e_YMT1,
          e_YMT2}

mfpPrediv == <<0, 4, 10, 16, 50, 64, 100, 200>>

\* The MADMAX sample bank of the YM2 driver (sampleAddress, sampleLen) is not
\* among the sources; a bank of 40 one-byte samples stands in for it.
sampleAddress == [n \in 1..40 |-> <<128>>]

sampleLen == [n \in 1..40 |-> 1]

\* (x >> s) & mask for a byte x.
Bits(x, s, mask) == (x \div (2^s)) % (mask + 1)

readYm5Effects(m, data) ==
  LET code1  == Bits(data[2], 4, 3)
      pre1   == mfpPrediv[Bits(data[7], 5, 7) + 1] * data[15]
      code2  == Bits(data[4], 4, 3)
      ndrum  == data[8 + code2 - 1 + 1] % 32
      pre2   == mfpPrediv[Bits(data[9], 5, 7) + 1] * data[16]
  IN  Bind(IF code1 # 0 /\ pre1 # 0
           THEN SidStart(m.ymChip, code1 - 1, MFP_CLOCK \div pre1,
                         data[code1 - 1 + 8 + 1] % 16)
           ELSE m.ymChip, LAMBDA c1 :
        IF code2 # 0 /\ ndrum < m.nbDrum /\ pre2 # 0
        THEN DrumStart(c1, code2 - 1, m.pDrumTab[ndrum + 1].Data,
                       m.pDrumTab[ndrum + 1].Size, MFP_CLOCK \div pre2)
        ELSE c1)

readYm6Effect(m, c, pReg, code, prediv, count) ==
  LET effectCode == (pReg[code + 1] \div 16) * 16
      p          == mfpPrediv[Bits(pReg[prediv + 1], 5, 7) + 1]
                      * pReg[count + 1]
      voice      == Bits(pReg[code + 1], 4, 3) - 1
      action     == (pReg[code + 1] \div 64) * 64
      \* pReg[voice+8]
      vreg       == pReg[Bits(pReg[code + 1], 4, 3) + 8]
  IN  IF Bits(effectCode, 4, 3) = 0 \/ p = 0 THEN c
      ELSE CASE action = 0 ->
                  SidStart(c, voice, MFP_CLOCK \div p, vreg % 16)
             [] action = 128 -> c
             [] action = 64 ->
                  IF vreg % 32 < m.nbDrum
                  THEN DrumStart(c, voice, m.pDrumTab[(vreg % 32) + 1].Data,
                                 m.pDrumTab[(vreg % 32) + 1].Size,
                                 MFP_CLOCK \div p)
                  ELSE c
             [] OTHER -> SyncBuzzerStart(c, MFP_CLOCK \div p, vreg % 16)

\* Registers 0..10 of a frame.
RECURSIVE WriteFrameRegs(_, _, _)
WriteFrameRegs(c, data, i) ==
  IF i > 10 THEN c
  ELSE WriteFrameRegs(WriteRegister(c, i, data[i + 1]), data, i + 1)

\* playerFrame with the loop taken back to frame 0 instead of loopFrame.
playerFrameFromStart(m) ==
  LET cf == IF m.currentFrame < 0 THEN 0 ELSE m.currentFrame
  IN  IF cf >= m.nbFrame /\ m.bLoop THEN 0 ELSE cf

\* The frame player() is about to read: currentFrame clamped at 0 and, at
\* the end with the loop on, loopFrame.
playerFrame(m) ==
  LET cf == IF m.currentFrame < 0 THEN 0 ELSE m.currentFrame
  IN  IF cf >= m.nbFrame /\ m.bLoop THEN m.loopFrame ELSE cf

\* player() ends the song: the end is reached with the loop off.
playerAtEnd(m) ==
  (IF m.currentFrame < 0 THEN 0 ELSE m.currentFrame) >= m.nbFrame /\ ~m.bLoop

\* player() finds the frame outside the loaded stream.
playerTruncated(m) ==
  (playerFrame(m) + 1) * m.streamInc > Len(m.pDataStream)

\* The chip after the frame data was written to it.
playFrame(m, data) ==
  Bind(SyncBuzzerStop(SidStop(SidStop(SidStop(
         WriteFrameRegs(m.ymChip, data, 0), 0), 1), 2)), LAMBDA c1 :
    IF m.songType = YM_V2
    THEN Bind(IF data[14] # 255
              THEN WriteRegister(WriteRegister(WriteRegister(
                     c1, 11, data[12]), 12, 0), 13, 10)
              ELSE c1, LAMBDA c2 :
           IF data[11] >= 128 /\ data[13] # 0
              /\ data[11] % 128 < Len(sampleAddress)
           THEN DrumStart(c2, 2, sampleAddress[(data[11] % 128) + 1],
                          sampleLen[(data[11] % 128) + 1],
                          MFP_CLOCK \div data[13])
           ELSE c2)
    ELSE IF m.songType >= YM_V3
    THEN Bind(WriteRegister(WriteRegister(c1, 11, data[12]), 12, data[13]),
              LAMBDA c2 :
         Bind(IF data[14] # 255 THEN WriteRegister(c2, 13, data[14])
              ELSE c2, LAMBDA c3 :
           IF m.songType = YM_V6
           THEN readYm6Effect(m, readYm6Effect(m, c3, data, 1, 6, 14),
                              data, 3, 8, 15)
           ELSE IF m.songType >= YM_V5
           THEN readYm5Effects([m EXCEPT !.ymChip = c3], data)
           ELSE c3))
    ELSE c1)

player(m) ==
  LET cf == playerFrame(m)
      ptr == cf * m.streamInc
  IN  IF playerAtEnd(m)
      THEN [m EXCEPT !.currentFrame = IF @ < 0 THEN 0 ELSE @,
                     !.bMusicOver = TRUE,
                     !.ymChip = Reset(@)]
      ELSE IF playerTruncated(m)
      THEN [m EXCEPT !.currentFrame = cf, !.bMusicOver = TRUE]
      ELSE [m EXCEPT !.currentFrame = cf + 1,
                     !.ymChip = playFrame(m,
                        SubSeq(m.pDataStream, ptr + 1, ptr + m.streamInc))]

\* bufferClear stopping one sample short.
bufferClearShort(out, nbSample) == out \o [i \in 1..(nbSample - 1) |-> 0]

\* bufferClear: nbSample zeros, appended to out.
bufferClear(out, nbSample) == out \o [i \in 1..nbSample |-> 0]

\* One step of the history of played frames: the frame player() wrote to the
\* chip and the samples emitted until the next call of player().
NewStep(frame) == [frame |-> frame, samples |-> <<>>]

AddSamples(h, smp) ==
  IF h = <<>> THEN h
  ELSE [h EXCEPT ![Len(h)].samples = @ \o smp]

\* The frame loop of Update.  L = [m, nbs, out, h, fault]: the player, the
\* samples still to produce, the samples written to pBuffer so far (pBuffer
\* is written from index 0 upwards), the history of played frames.  The
\* buffer holds cap samples: pOut[:sampleToCompute] beyond it panics.  An
\* iteration that leaves nbs and innerSamplePos as they were is followed
\* by the same iteration again, for ever.
RECURSIVE UpdateLoop(_, _, _)
UpdateLoop(L, vblNbSample, cap) ==
  IF L.nbs <= 0 THEN L
  ELSE LET stc   == Min(vblNbSample - L.m.innerSamplePos, L.nbs)
           inner == L.m.innerSamplePos
                      + Min(vblNbSample - L.m.innerSamplePos, L.nbs)
           calls == L.m.innerSamplePos
                      + Min(vblNbSample - L.m.innerSamplePos, L.nbs)
                    >= vblNbSample
       IN
    Bind(IF calls
         THEN [player(L.m) EXCEPT !.innerSamplePos = inner - vblNbSample]
         ELSE [L.m EXCEPT !.innerSamplePos = inner], LAMBDA m1 :
    Bind(IF calls /\ ~playerAtEnd(L.m) /\ ~playerTruncated(L.m)
         THEN Append(L.h, NewStep(playerFrame(L.m)))
         ELSE L.h, LAMBDA h1 :
      IF stc > 0 /\ Len(L.out) + stc > cap
      THEN [L EXCEPT !.m = m1, !.h = h1,
                     !.fault = "slice bounds out of range"]
      ELSE IF stc = 0 /\ m1.innerSamplePos = L.m.innerSamplePos
      THEN [L EXCEPT !.m = m1, !.h = h1, !.fault = "endless loop"]
      ELSE IF stc <= 0
      THEN UpdateLoop([m |-> m1, nbs |-> L.nbs - stc, out |-> L.out,
                       h |-> h1, fault |-> "none"], vblNbSample, cap)
      ELSE Bind(ChipUpdate(m1.ymChip, stc, <<>>), LAMBDA chip :
             UpdateLoop([m |-> [m1 EXCEPT !.ymChip = chip.c],
                         nbs |-> L.nbs - stc,
                         out |-> L.out \o chip.out,
                         h |-> AddSamples(h1, chip.out),
                         fault |-> "none"], vblNbSample, cap))))

\* UpdateIdle answering true in the over-state too.
UpdateIdleNeverFalse(m, h, nbSample) ==
  [m |-> m, out |-> bufferClear(<<>>, nbSample),
   ret |-> TRUE, fault |-> "none", h |-> h]

\* An idle Update that moves the position in the frame on.
UpdateIdleAdvancing(m, h, nbSample) ==
  [m |-> [m EXCEPT !.innerSamplePos = @ + nbSample],
   out |-> bufferClear(<<>>, nbSample),
   ret |-> ~m.bMusicOver, fault |-> "none", h |-> h]

\* The first branch of Update: the player is not loaded, paused or over.
\* The buffer is cleared and the call returns false only in the over-state.
UpdateIdle(m, h, nbSample) ==
  [m |-> m, out |-> bufferClear(<<>>, nbSample),
   ret |-> ~m.bMusicOver, fault |-> "none", h |-> h]

\* CYmMusic.Update(pBuffer, nbSample) with len(pBuffer) = nbSample, as
\* StSound.Compute calls it: [m, out, ret, fault, h].  out are the samples
\* written to pBuffer, in index order; fault is "none" when the call
\* returns.  The MIX and tracker branches need a songType ymDecode never
\* sets.
Update(m, h, nbSample) ==
  IF ~m.bMusicOk \/ m.bPause \/ m.bMusicOver
  THEN UpdateIdle(m, h, nbSample)
  ELSE IF m.playerRate = 0
  THEN [m |-> m, out |-> <<>>, ret |-> TRUE,
        fault |-> "integer divide by zero", h |-> h]
  ELSE Bind(UpdateLoop([m |-> m, nbs |-> nbSample, out |-> <<>>,
                        h |-> h, fault |-> "none"],
                       m.replayRate \div m.playerRate, nbSample),
            LAMBDA L :
         [m |-> L.m, out |-> L.out, ret |-> TRUE, fault |-> L.fault,
          h |-> L.h])

GetPos(m) ==
  IF m.songType >= YM_MIX1 /\ m.songType < YM_MIXMAX THEN m.iMusicPosInMs
  ELSE IF m.nbFrame > 0 /\ m.playerRate > 0
  THEN (m.currentFrame * 1000) \div m.playerRate
  ELSE 0

GetMusicTime(m) ==
  IF m.songType >= YM_MIX1 /\ m.songType < YM_MIXMAX THEN 0
  ELSE IF m.nbFrame > 0 /\ m.playerRate > 0
  THEN (m.nbFrame * 1000) \div m.playerRate
  ELSE 0

\* A SetMusicTime that takes a time past the end as it is.
SetMusicTimeUnclamped(m, time) ==
  IF ~IsSeekable(m) THEN [m |-> m, ret |-> 0]
  ELSE [m |-> [m EXCEPT !.currentFrame = (time * m.playerRate) \div 1000],
        ret |-> time]

\* SetMusicTime: the player after the call and the time it returns.  The MIX
\* branch (setMixTime) needs a songType ymDecode never sets.
SetMusicTime(m, time) ==
  IF ~IsSeekable(m) THEN [m |-> m, ret |-> 0]
  ELSE IF    (m.songType >= YM_V2 /\ m.songType < YM_VMAX)
          \/ (m.songType >= YM_TRACKER1 /\ m.songType < YM_TRACKERMAX)
  THEN LET newTime == IF time >= GetMusicTime(m) THEN 0 ELSE time
       IN  [m |-> [m EXCEPT !.currentFrame =
                      (newTime * m.playerRate) \div 1000],
            ret |-> newTime]
  ELSE [m |-> m, ret |-> time]

Restart(m) == [SetMusicTime(m, 0).m EXCEPT !.bMusicOver = FALSE]

(***************************************************************************)
(* The input files.                                                        *)
(***************************************************************************)
BE32(x) == <<(x \div 16777216) % 256, (x \div 65536) % 256,
             (x \div 256) % 256, x % 256>>

BE16(x) == <<(x \div 256) % 256, x % 256>>

LE32(x) == <<x % 256, (x \div 256) % 256, (x \div 65536) % 256,
             (x \div 16777216) % 256>>

\* The frames in the register-major order of an interleaved stream.
Interleave(frames, inc) ==
  [k \in 1..(Len(frames) * inc) |->
     frames[((k - 1) % Len(frames)) + 1][((k - 1) \div Len(frames)) + 1]]

RECURSIVE Flatten(_)
Flatten(frames) ==
  IF frames = <<>> THEN <<>> ELSE Head(frames) \o Flatten(Tail(frames))

TagYM2 == <<89, 77, 50, 33>>

TagYM3 == <<89, 77, 51, 33>>

TagYM3b == <<89, 77, 51, 98>>

TagYM4 == <<89, 77, 52, 33>>

TagYM5 == <<89, 77, 53, 33>>

TagYM6 == <<89, 77, 54, 33>>

TagMIX1 == <<77, 73, 88, 49>>

TagYMT1 == <<89, 77, 84, 49>>

TagYMT2 == <<89, 77, 84, 50>>

LeOnArD == <<76, 101, 79, 110, 65, 114, 68, 33>>

\* Register frames: tone A at period 256, tones A and B at periods 100 and
\* 150, tone A at period 2.  Noise is off and register 13 is 0xFF.
FrameA == <<0, 1, 0, 0, 0, 0, 0, 62, 15, 0, 0, 0, 0, 255>>

FrameB == <<100, 0, 150, 0, 0, 0, 0, 60, 12, 9, 0, 0, 0, 255>>

FrameC == <<2, 0, 0, 0, 0, 0, 0, 62, 8, 0, 0, 0, 0, 255>>

\* A YM6 frame that starts a SID voice on A: code 0x10 in register 1,
\* predivisor index 1 in register 6, count 3 in register 14.
FrameSid == <<100, 16, 0, 0, 0, 0, 32, 62, 10, 0, 0, 0, 0, 255, 3, 0>>

FileYm3(tag, frames) == tag \o Interleave(frames, 14)

FileYm3b(frames, loopFrame) ==
  TagYM3b \o Interleave(frames, 14) \o LE32(loopFrame)

\* A YM5!/YM6! file without drums: the header, three empty strings, stream.
FileYm56(tag, nbFrame, attrib, rate, loopFrame, stream) ==
  tag \o LeOnArD \o BE32(nbFrame) \o BE32(attrib) \o BE16(0)
      \o BE32(ATARI_CLOCK) \o BE16(rate) \o BE32(loopFrame) \o BE16(0)
      \o <<0, 0, 0>> \o stream

Frames16 == << FrameA \o <<0, 0>>, FrameB \o <<0, 0>> >>

\* The files LoadMemory accepts and plays through.
FileA == FileYm3(TagYM3, <<FrameA, FrameB>>)

FileB == FileYm3b(<<FrameA, FrameB, FrameC>>, 1)

FileC == FileYm3(TagYM2, <<FrameB, FrameA>>)

FileD == FileYm56(TagYM5, 2, 1, 24, 0, Interleave(Frames16, 16))

FileE == FileYm56(TagYM6, 2, 0, 50, 1, Flatten(<<FrameSid, FrameB \o <<0, 0>> >>))

\* Files whose header does not match their content: a loop frame beyond
\* the last frame, a player rate of 0, a player rate above the replay rate,
\* three frames announced and one present (stored frame-major, and
\* interleaved).
FileF == FileYm3b(<<FrameA, FrameB, FrameC>>, 5)

FileG == FileYm56(TagYM5, 2, 0, 0, 0, Flatten(Frames16))

FileH == FileYm56(TagYM5, 2, 0, 200, 0, Flatten(Frames16))

FileI == FileYm56(TagYM5, 3, 0, 50, 0, FrameA \o <<0, 0>>)

FileJ == FileYm56(TagYM5, 3, 1, 50, 0, FrameA \o <<0, 0>>)

\* Files LoadMemory is to refuse.
FileK == TagYM5 \o <<88, 88, 88, 88, 88, 88, 88, 88>> \o Flatten(Frames16)

FileL == TagYM4 \o Interleave(<<FrameA>>, 14)

FileM == TagMIX1 \o <<0, 0, 0, 0, 0, 0, 0, 0>>

FileN == TagYMT1 \o <<0, 0, 0, 0, 0, 0, 0, 0>>

FileO == TagYMT2 \o <<0, 0, 0, 0, 0, 0, 0, 0>>

FileP == <<65, 66, 67, 68, 0, 0>>

FileQ == <<89, 77>>

FileR == TagYM5

\* A YM3! file without a frame.
FileS == TagYM3

\* The frames of FileT: a DigiDrum on voice A (timer 200 * 255), a SID on
\* voice A (timer 4 * 3), a Sinus-SID on voice A (timer 4 * 7), a frame
\* without an effect.
FrameDrum == <<100, 0, 0, 80, 0, 0, 0, 62, 224, 0, 0, 0, 0, 255, 0, 255>>

FrameSinSid == <<100, 144, 0, 0, 0, 0, 32, 62, 10, 0, 0, 0, 0, 255, 7, 0>>

\* A YM6! file of four frames at 50 Hz with one DigiDrum of two samples.
FileT ==
  TagYM6 \o LeOnArD \o BE32(4) \o BE32(0) \o BE16(1) \o BE32(ATARI_CLOCK)
    \o BE16(50) \o BE32(0) \o BE16(0) \o BE32(2) \o <<6, 12>> \o <<0, 0, 0>>
    \o Flatten(<<FrameDrum, FrameSid, FrameSinSid, FrameB \o <<0, 0>> >>)

Files == <<FileA, FileB, FileC, FileD, FileE, FileF, FileG, FileH, FileI,
           FileJ, FileK, FileL, FileM, FileN, FileO, FileP, FileQ, FileR,
           FileS>>

\* FileA packed by -lh5-: one block of 22 codes, the code lengths of the
\* literals and of the two match lengths (5 bits each), no position tree, the
\* codes.  The runs of 0 of FileA are matches at distance 1.
PackedA == <<0, 22, 66, 75, 10, 11, 234, 97, 134, 246, 246, 174, 109, 236, 107,
             240, 119, 138, 152, 102, 0, 164, 152, 160, 88, 64, 6, 1, 232, 57,
             6, 1, 1, 205, 104>>

\* A payload whose first tree announces 31 code lengths.
PackedBad == <<0, 1, 255>>

\* An LZH member: a level-0 header of 22 bytes (header size 20, method
\* "-lh<method>-", packed size, original size) and the payload.
Archive(method, packed, orig, payload) ==
  <<20, 0, 45, 108, 104, 48 + method, 45>> \o LE32(packed) \o LE32(orig)
    \o <<0, 0, 0, 0, 0, 0, 0>> \o payload

\* s without its last c bytes.
CutTail(s, c) == SubSeq(s, 1, Len(s) - Min(c, Len(s)))

\* The members handed to Decompress and to LoadMemory: FileA stored and
\* packed, whole and with up to MaxCut bytes missing at the end; FileB and
\* FileD stored; FileA with an original size below and above its own; a
\* payload that is no code stream; a method that is not supported.
Archives ==
  {Archive(0, Len(FileA), Len(FileA), CutTail(FileA, c)) : c \in 0..MaxCut}
  \cup {Archive(meth, Len(PackedA), Len(FileA), CutTail(PackedA, c)) :
          meth \in {4, 5}, c \in 0..MaxCut}
  \cup {Archive(0, Len(FileB), Len(FileB), FileB),
        Archive(0, Len(FileD), Len(FileD), FileD),
        Archive(5, Len(PackedA), 18, PackedA),
        Archive(5, Len(PackedA), Len(FileA) + 8, PackedA),
        Archive(5, Len(PackedBad), 4, PackedBad),
        Archive(1, Len(FileA), Len(FileA), FileA)}

\* The files of the playback runs: FileA, FileD and FileP.
PlayFiles == {1, 4, 16}

\* The files of the seeking runs: FileA, FileD, FileG (player rate 0) and
\* FileS (no frame).
SeekFiles == {1, 4, 7, 19}

\* The replay rate the player is created with, and the times SetMusicTime is
\* called with (its own GetPos() is always among them).
ReplayRate == 100

SeekTimes == {20 * k : k \in 0..MaxSeek}

(***************************************************************************)
(* The state machine: one player (StSound) and the calls of its API.       *)
(*   m       the CYmMusic object                                           *)
(*   last    the last call: its name, argument, what it returned, the      *)
(*           samples Update wrote, the panic or endless loop it ended in   *)
(*   loadErr what the latest LoadMemory returned ("unset" before the first)*)
(*   h       the history of played frames (kept when trk is set)           *)
(*   emitted the samples asked for so far                                  *)
(*   trk     whether h is kept                                             *)
(*   g       what the goroutines of the process share and where each of    *)
(*           them is: the volume table and the creators at work on it, the *)
(*           audio.Player and its audio loop, the window's playback state  *)
(*           and its loops, the audio outputs and their counter            *)
(***************************************************************************)
VARIABLES m, last, loadErr, h, emitted, trk, g

vars == <<m, last, loadErr, h, emitted, trk, g>>

\* The package variables ymVolumeTable and volumeTableInitialized before any
\* player exists, and the goroutines that can run NewYm2149Ex (the window's
\* and the export's): where each is in it (pc), its loop index i and the
\* players it has made.
Creators == 1..2

Globals0 ==
  [table |-> ymVolumeTableRaw, initialized |-> FALSE,
   pc |-> [t \in Creators |-> "idle"], i |-> [t \in Creators |-> 0],
   made |-> [t \in Creators |-> 0]]

\* The package variables once one NewYm2149Ex has run alone.
FirstCreated ==
  [Globals0 EXCEPT !.table = [i \in 1..16 |-> (@[i] * 2) \div 6],
                   !.initialized = TRUE, !.made[1] = 1]

Call(op, arg) ==
  [op |-> op, arg |-> arg, ret |-> TRUE, time |-> 0, out |-> <<>>,
   err |-> "none", fault |-> "none", starved |-> FALSE]

\* A call that panicked or never returns ends the run.
Alive == last.fault = "none"

Init ==
  /\ m = NewYmMusic(ReplayRate)
  /\ last = Call("Create", ReplayRate)
  /\ loadErr = "unset"
  /\ h = <<>>
  /\ emitted = 0
  /\ trk = FALSE
  /\ g = FirstCreated

DoLoadMemory(f) ==
  /\ Alive
  /\ \E r \in {loadMemory(m, Files[f])} :
       /\ m' = r.m
       /\ last' = [Call("LoadMemory", f) EXCEPT
                     !.err = r.err, !.fault = r.fault]
       /\ loadErr' = r.err
  /\ h' = <<>>
  /\ UNCHANGED <<emitted, trk, g>>

DoUpdate(n) ==
  /\ Alive
  /\ emitted + n <= (IF trk THEN MaxEmitLoop ELSE MaxEmit)
  /\ \E r \in {Update(m, h, n)} :
       /\ m' = r.m
       /\ last' = [Call("Update", n) EXCEPT
                     !.ret = r.ret, !.out = r.out, !.fault = r.fault]
       /\ h' = IF trk THEN r.h ELSE <<>>
  /\ emitted' = emitted + n
  /\ UNCHANGED <<loadErr, trk, g>>

DoPlay ==
  /\ Alive
  /\ m' = play(m)
  /\ last' = Call("Play", 0)
  /\ UNCHANGED <<loadErr, h, emitted, trk, g>>

DoPause ==
  /\ Alive
  /\ m' = pause(m)
  /\ last' = Call("Pause", 0)
  /\ UNCHANGED <<loadErr, h, emitted, trk, g>>

DoStop ==
  /\ Alive
  /\ m' = stop(m)
  /\ last' = Call("Stop", 0)
  /\ h' = <<>>
  /\ UNCHANGED <<loadErr, emitted, trk, g>>

DoSetMusicTime(t) ==
  /\ Alive
  /\ \E r \in {SetMusicTime(m, t)} :
       /\ m' = r.m
       /\ last' = [Call("SetMusicTime", t) EXCEPT !.time = r.ret]
  /\ h' = <<>>
  /\ UNCHANGED <<loadErr, emitted, trk, g>>

DoRestart ==
  /\ Alive
  /\ m' = Restart(m)
  /\ last' = Call("Restart", 0)
  /\ h' = <<>>
  /\ UNCHANGED <<loadErr, emitted, trk, g>>

DoSetLoopMode(b) ==
  /\ Alive
  /\ m' = SetLoopMode(m, b)
  /\ last' = Call("SetLoopMode", IF b THEN 1 ELSE 0)
  /\ UNCHANGED <<loadErr, h, emitted, trk, g>>

\* lzh.Decompress on the member a, called once in a run.
DoDecompress(a) ==
  /\ last.op = "Create"
  /\ \E r \in {Decompress(a)} :
       last' = [Call("Decompress", a) EXCEPT
                  !.out = r.out, !.err = r.err, !.fault = r.fault,
                  !.starved = r.starved]
  /\ UNCHANGED <<m, loadErr, h, emitted, trk, g>>

\* LoadMemory on the member a, as the first call on a new player.
DoLoadArchive(a) ==
  /\ last.op = "Create"
  /\ \E r \in {loadMemory(m, a)} :
       /\ m' = r.m
       /\ last' = [Call("LoadArchive", a) EXCEPT
                     !.err = r.err, !.fault = r.fault]
       /\ loadErr' = r.err
  /\ h' = <<>>
  /\ UNCHANGED <<emitted, trk, g>>

\* The player driven through its whole API on two songs (50 Hz and 24 Hz)
\* and one buffer that is no YM file.
Next ==
  \/ \E f \in PlayFiles : DoLoadMemory(f)
  \/ \E n \in 0..MaxN : DoUpdate(n)
  \/ DoPlay
  \/ DoPause
  \/ DoStop
  \/ \E t \in SeekTimes \cup {GetPos(m)} : DoSetMusicTime(t)
  \/ DoRestart
  \/ \E b \in BOOLEAN : DoSetLoopMode(b)

Spec == Init /\ [][Next]_vars

\* The loader on every file of Files, each played from its start.
NextLoad ==
  \/ \E f \in 1..Len(Files) : DoLoadMemory(f)
  \/ \E n \in 1..MaxN : DoUpdate(n)
  \/ \E b \in BOOLEAN : DoSetLoopMode(b)

SpecLoad == Init /\ [][NextLoad]_vars

\* The LZH members unpacked, and loaded into a new player.
NextLzh ==
  \/ \E a \in Archives : DoDecompress(a)
  \/ \E a \in Archives : DoLoadArchive(a)

SpecLzh == Init /\ [][NextLzh]_vars

\* NewYm2149Ex run by goroutine t, one access of the package variables at a
\* time; nothing orders the accesses of two goroutines.  The test of
\* volumeTableInitialized and ymVolumeTable[15]: when it fails the player is
\* completed and returned.
CreateCheck(t) ==
  /\ g.pc[t] = "idle" /\ g.made[t] < MaxCreate
  /\ IF ~g.initialized /\ g.table[16] = 32767
     THEN /\ g' = [g EXCEPT !.pc[t] = "flag"]
          /\ UNCHANGED last
     ELSE /\ g' = [g EXCEPT !.made[t] = @ + 1]
          /\ last' = Call("Create", t)
  /\ UNCHANGED <<m, loadErr, h, emitted, trk>>

\* volumeTableInitialized = true.
CreateSetFlag(t) ==
  /\ g.pc[t] = "flag"
  /\ g' = [g EXCEPT !.initialized = TRUE, !.pc[t] = "loop", !.i[t] = 0]
  /\ UNCHANGED <<m, last, loadErr, h, emitted, trk>>

\* One turn of the scaling loop: ymVolumeTable[i] = (ymVolumeTable[i] * 2) / 6.
\* The read and the write of a turn are taken together; apart, they only add
\* to the tables two goroutines can leave.
CreateScale(t) ==
  /\ g.pc[t] = "loop" /\ g.i[t] < 16
  /\ g' = [g EXCEPT !.table[g.i[t] + 1] = (@ * 2) \div 6, !.i[t] = @ + 1]
  /\ UNCHANGED <<m, last, loadErr, h, emitted, trk>>

\* The loop is over: the player is completed and returned.
CreateReturn(t) ==
  /\ g.pc[t] = "loop" /\ g.i[t] = 16
  /\ g' = [g EXCEPT !.pc[t] = "idle", !.made[t] = @ + 1]
  /\ last' = Call("Create", t)
  /\ UNCHANGED <<m, loadErr, h, emitted, trk>>

\* The players of a process created by two goroutines, from its start, when
\* no player exists (m is empty).
InitCreate ==
  /\ m = <<>>
  /\ last = Call("Start", 0)
  /\ loadErr = "unset"
  /\ h = <<>>
  /\ emitted = 0
  /\ trk = FALSE
  /\ g = Globals0

NextCreate ==
  \E t \in Creators :
    \/ CreateCheck(t)
    \/ CreateSetFlag(t)
    \/ CreateScale(t)
    \/ CreateReturn(t)

SpecCreate == InitCreate /\ [][NextCreate]_vars

\* The register writes of the chip specification: tone period A of 3 and of
\* 10, the noise period, the mixer with tone A alone and with tone A and
\* noise A, the level of voice A fixed and from the envelope.
ChipWrites == {<<0, 3>>, <<0, 10>>, <<6, 31>>, <<7, 254>>, <<7, 246>>,
               <<8, 15>>, <<8, 16>>}

\* CYm2149Ex.WriteRegister(reg, data) on the chip of the player.
DoWriteRegister(reg, data) ==
  /\ emitted < MaxChipOps
  /\ m' = [m EXCEPT !.ymChip = WriteRegister(@, reg, data)]
  /\ last' = Call("WriteRegister", <<reg, data>>)
  /\ emitted' = emitted + 1
  /\ UNCHANGED <<loadErr, h, trk, g>>

\* CYm2149Ex.Reset().
DoChipReset ==
  /\ emitted < MaxChipOps
  /\ m' = [m EXCEPT !.ymChip = Reset(@)]
  /\ last' = Call("Reset", 0)
  /\ emitted' = emitted + 1
  /\ UNCHANGED <<loadErr, h, trk, g>>

\* One sample of CYm2149Ex.Update (nextSample): last.arg holds volA, volB and
\* volC, the amplitudes the three voices add to the sample.
DoNextSample ==
  /\ emitted < MaxChipOps
  /\ \E r \in {nextSample(m.ymChip)} :
       /\ m' = [m EXCEPT !.ymChip = r.c]
       /\ last' = [Call("nextSample",
                        [v \in 1..3 |-> VoiceOut(sampleStart(m.ymChip), v)])
                     EXCEPT !.out = <<r.s>>]
  /\ emitted' = emitted + 1
  /\ UNCHANGED <<loadErr, h, trk, g>>

\* The chip of a new player, written to and sampled.
NextChip ==
  \/ \E w \in ChipWrites : DoWriteRegister(w[1], w[2])
  \/ DoChipReset
  \/ DoNextSample

SpecChip == Init /\ [][NextChip]_vars

\* The timer frequencies of the effect runs, MFP_CLOCK / (prediv * count)
\* for prediv * count of 4 * 1, 16 * 1, 4 * 7 and 200 * 255.
FxTimers == {MFP_CLOCK \div p : p \in {4, 16, 28, 51000}}

\* player() on the song: one frame decoded and written to the chip.
DoPlayer ==
  /\ emitted < MaxFxOps /\ ~m.bMusicOver
  /\ m' = player(m)
  /\ last' = Call("player", playerFrame(m))
  /\ emitted' = emitted + 1
  /\ UNCHANGED <<loadErr, h, trk, g>>

\* CYm2149Ex.SidStart(voice, timerFreq, vol).
DoSidStart(voice, timerFreq, vol) ==
  /\ emitted < MaxFxOps
  /\ m' = [m EXCEPT !.ymChip = SidStart(@, voice, timerFreq, vol)]
  /\ last' = Call("SidStart", <<voice, timerFreq, vol>>)
  /\ emitted' = emitted + 1
  /\ UNCHANGED <<loadErr, h, trk, g>>

\* CYm2149Ex.DrumStart(voice, pDrumBuffer, drumSize, drumFreq) with the
\* first drum of the song.
DoDrumStart(voice, drumFreq) ==
  /\ emitted < MaxFxOps
  /\ m' = [m EXCEPT !.ymChip = DrumStart(@, voice, m.pDrumTab[1].Data,
                                        m.pDrumTab[1].Size, drumFreq)]
  /\ last' = Call("DrumStart", <<voice, drumFreq>>)
  /\ emitted' = emitted + 1
  /\ UNCHANGED <<loadErr, h, trk, g>>

DoSidStop(voice) ==
  /\ emitted < MaxFxOps
  /\ m' = [m EXCEPT !.ymChip = SidStop(@, voice)]
  /\ last' = Call("SidStop", voice)
  /\ emitted' = emitted + 1
  /\ UNCHANGED <<loadErr, h, trk, g>>

DoDrumStop(voice) ==
  /\ emitted < MaxFxOps
  /\ m' = [m EXCEPT !.ymChip = DrumStop(@, voice)]
  /\ last' = Call("DrumStop", voice)
  /\ emitted' = emitted + 1
  /\ UNCHANGED <<loadErr, h, trk, g>>

\* A YM6! song with a DigiDrum, loaded with the loop on: its frames decoded,
\* the effects of its chip started and stopped, samples taken.
InitFx ==
  /\ m = SetLoopMode(loadMemory(NewYmMusic(ReplayRate), FileT).m, TRUE)
  /\ last = Call("LoadMemory", 0)
  /\ loadErr = "none"
  /\ h = <<>>
  /\ emitted = 0
  /\ trk = FALSE
  /\ g = FirstCreated

NextFx ==
  \/ DoPlayer
  \/ \E v \in 0..1, f \in FxTimers : DoSidStart(v, f, 10)
  \/ \E v \in 0..1, f \in FxTimers : DoDrumStart(v, f)
  \/ \E v \in 0..1 : DoSidStop(v)
  \/ \E v \in 0..1 : DoDrumStop(v)
  \/ DoNextSample

SpecFx == InitFx /\ [][NextFx]_vars

\* A player that loads, plays and seeks.
NextSeek ==
  \/ \E f \in SeekFiles : DoLoadMemory(f)
  \/ \E n \in 1..MaxN : DoUpdate(n)
  \/ \E t \in SeekTimes \cup {GetPos(m)} : DoSetMusicTime(t)

SpecSeek == Init /\ [][NextSeek]_vars

\* A YM3b song played with the loop on, the played frames recorded.
InitLoop ==
  /\ m = SetLoopMode(loadMemory(NewYmMusic(ReplayRate), FileB).m, TRUE)
  /\ last = Call("LoadMemory", 2)
  /\ loadErr = "none"
  /\ h = <<>>
  /\ emitted = 0
  /\ trk = TRUE
  /\ g = FirstCreated

NextLoop == \E n \in 1..MaxN : DoUpdate(n)

SpecLoop == InitLoop /\ [][NextLoop]_vars

(***************************************************************************)
(* The claims.                                                             *)
(***************************************************************************)
\* The zeros a cleared buffer of n samples holds.
Zeros(n) == [i \in 1..n |-> 0]

\* C1 (as the code has it): a call of Update that returns answers false
\* exactly when the over-state had been entered before the call began,
\* whatever the loop mode is at that time; in every other state (not loaded,
\* paused, playing, reaching the end during this very call) it answers true.
C1_FalseIffOverAtEntry ==
  [][last'.op = "Update" /\ last'.fault = "none"
       => (last'.ret = FALSE <=> m.bMusicOver)]_vars

\* C1, reached: Update answered false on a loaded song whose loop mode is on.
C1_FalseWhileLooping ==
  /\ last.op = "Update"
  /\ last.ret = FALSE
  /\ last.arg > 0
  /\ m.bMusicOk
  /\ m.bLoop

\* C1 as stated: Update answers false if and only if the over-state has been
\* entered and looping is off.
C1_FalseIffOverAndLoopOff ==
  [][last'.op = "Update" /\ last'.fault = "none"
       => (last'.ret = FALSE <=> (m.bMusicOver /\ ~m.bLoop))]_vars

\* C2: every call Update(buf, n) returns having written exactly n samples.
C2_WritesExactlyN ==
  last.op = "Update" => last.fault = "none" /\ Len(last.out) = last.arg

\* C3: whenever Update(buf, n) returns false, the n samples it delivered are
\* all zero.
C3_FalseMeansZeros ==
  last.op = "Update" /\ last.ret = FALSE => last.out = Zeros(last.arg)

\* C3, reached: Update returned false for a buffer that holds samples.
C3_FalseWithSamples ==
  /\ last.op = "Update"
  /\ last.ret = FALSE
  /\ last.arg > 0
  /\ Len(last.out) = last.arg

\* C4: on a song LoadMemory accepted, every call of Update terminates
\* normally: no panic and no frame loop that runs forever.
C4_UpdateTerminates ==
  last.op = "Update" /\ loadErr = "none" /\ m.bMusicOk
    => last.fault = "none"

\* C5: once LoadMemory has returned an error the player is a stopped player:
\* the position stays 0 whatever is called, and Update writes zeros.
C5_FailedLoadIsStopped ==
  loadErr \notin {"unset", "none"}
    => /\ GetPos(m) = 0
       /\ m.currentFrame = 0
       /\ (last.op = "Update" => last.out = Zeros(last.arg))

\* The steps of h that replay an earlier step across the loop point: step k
\* (counted from 0) with k >= loopFrame and step k + (nbFrame - loopFrame).
LoopPairs ==
  {k \in 0..(Len(h) - 1) :
     k >= m.loopFrame /\ k + (m.nbFrame - m.loopFrame) < Len(h)}

\* C6 (as the code has it): with the loop on, playback step
\* L + i + (nb_frame - L) of a YM3b song writes the same register frame to
\* the chip as step L + i.
C6_LoopReplaysFrames ==
  \A k \in LoopPairs :
    h[k + (m.nbFrame - m.loopFrame) + 1].frame = h[k + 1].frame

\* C6, reached: the song has gone round its loop and the first replayed step
\* has emitted all its samples.
C6_LoopTaken ==
  /\ LoopPairs # {}
  /\ \E k \in LoopPairs :
       /\ h[k + (m.nbFrame - m.loopFrame) + 1].frame = m.loopFrame
       /\ Len(h[k + (m.nbFrame - m.loopFrame) + 1].samples)
            = m.replayRate \div m.playerRate

\* C6 as stated: the replayed step plays the same register frame and the
\* samples emitted for it are identical to those of the earlier step.
C6_LoopReplaysSamples ==
  \A k \in LoopPairs :
    /\ h[k + (m.nbFrame - m.loopFrame) + 1].frame = h[k + 1].frame
    /\ Len(h[k + (m.nbFrame - m.loopFrame) + 1].samples)
         = Len(h[k + 1].samples)
       => h[k + (m.nbFrame - m.loopFrame) + 1].samples = h[k + 1].samples

\* C7: with the loop on, no call of Update on a loaded song puts the player
\* in the over-state.
C7_LoopNeverOver ==
  [][m.bMusicOk /\ m.bLoop /\ ~m.bMusicOver /\ last'.op = "Update"
       => ~m'.bMusicOver]_vars

\* C8: on a loaded, seekable song SetMusicTime(GetPos()) leaves current_frame
\* as it was.
C8_SeekToPosKeepsFrame ==
  [][(last'.op = "SetMusicTime" /\ last'.arg = GetPos(m)
        /\ m.bMusicOk /\ IsSeekable(m))
       => m'.currentFrame = m.currentFrame]_vars

\* The tags the format list names, and the errors that say the format is not
\* supported.
ListedTags ==
  {TagYM2, TagYM3, TagYM3b, TagYM4, TagYM5, TagYM6, TagMIX1, TagYMT1, TagYMT2}

FormatUnsupported == {"YM4 format not yet supported", "unknown YM format"}

\* C9: LoadMemory of a buffer of at least 4 bytes fails with a
\* format-unsupported error exactly when its tag is YM4! or none of the
\* listed tags, and a buffer IsYMFile accepts is never refused by LoadMemory
\* as an unknown format.
C9_TagDecidesFormat ==
  last.op = "LoadMemory" /\ last.fault = "none" /\ Len(Files[last.arg]) >= 4
    => /\ (last.err \in FormatUnsupported)
            <=> (\/ SubSeq(Files[last.arg], 1, 4) = TagYM4
                 \/ SubSeq(Files[last.arg], 1, 4) \notin ListedTags)
       /\ IsYMFile(Files[last.arg]) => last.err # "unknown YM format"

\* C10: LoadMemory never panics, and after a successful LoadMemory the
\* register stream holds exactly nb_frame * stream_inc bytes and loop_frame
\* lies in [0, nb_frame).
C10_StreamMatchesHeader ==
  last.op = "LoadMemory"
    => /\ last.fault = "none"
       /\ last.err = "none"
            => /\ Len(m.pDataStream) = m.nbFrame * m.streamInc
               /\ m.loopFrame \in 0..(m.nbFrame - 1)

\* The member header of the call's argument.
ArgHeader == Header(last.arg)

\* C11 (refuted by the code): a member that unpacks to a file LoadMemory
\* accepts loads as that file does: the same outcome and the same nbFrame,
\* loopFrame and register stream.
C11_LzhLoadsAsContent ==
  (last.op = "LoadArchive" /\ Decompress(last.arg).err = "none"
     /\ Decompress(last.arg).fault = "none")
    => \A r \in {loadMemory(NewYmMusic(ReplayRate), Decompress(last.arg).out)} :
         (r.err = "none" /\ r.fault = "none")
           => /\ last.err = "none" /\ last.fault = "none"
              /\ m.nbFrame = r.m.nbFrame
              /\ m.loopFrame = r.m.loopFrame
              /\ m.pDataStream = r.m.pDataStream

\* C12: when Decompress returns without an error, for -lh0-, -lh4- and
\* -lh5-, the output has exactly as many bytes as the original size of the
\* member header says.
C12_OutputHasOriginalSize ==
  (last.op = "Decompress" /\ last.err = "none" /\ last.fault = "none")
    => Len(last.out) = ArgHeader.orig

\* C12 witness: a packed member (-lh5-) was unpacked to all its 32 bytes.
C12_Unpacked ==
  /\ last.op = "Decompress" /\ last.err = "none" /\ last.fault = "none"
  /\ last.arg[6] = 53 /\ ~last.starved
  /\ last.out = FileA /\ ArgHeader.orig = Len(FileA)

\* C13 (refuted by the code): when the payload ends before the member is
\* unpacked, Decompress returns an error, for -lh0-, -lh4- and -lh5-.
C13_StarvedIsError ==
  (last.op = "Decompress" /\ last.fault = "none" /\ last.starved)
    => last.err # "none"

\* The samples a single Update of n samples writes on the song of InitLoop.
OneShot(n) ==
  Update(SetLoopMode(loadMemory(NewYmMusic(ReplayRate), FileB).m, TRUE),
         <<>>, n).out

\* C14 (refuted by the code): the samples emitted for a file, a replay rate
\* and a loop flag do not depend on the buffer sizes passed to Update: the
\* samples of the latest call are the samples a single call for all the
\* samples so far has at the same positions.
C14_SameSamplesAnySplit ==
  (last.op = "Update" /\ last.fault = "none")
    => last.out = SubSeq(OneShot(emitted), emitted - last.arg + 1, emitted)

\* C16 (refuted by the code): once a creation has returned, whatever the
\* number of players and the interleaving of the creations, every entry of
\* the volume table is its original value * 2 / 6 (entry 15 is 10922).
C16_ScaledExactlyOnce ==
  (\E t \in Creators : g.made[t] > 0)
    => \A i \in 1..16 : g.table[i] = (ymVolumeTableRaw[i] * 2) \div 6

\* The 12-bit tone period of voice v (1..3) in the registers of the chip.
TonePeriod(v) ==
  (m.ymChip.registers[2 * v] % 16) * 256 + m.ymChip.registers[2 * v - 1]

\* C15 (as stated; refuted): on every sample a voice whose tone period is at
\* most 5 adds the amplitude ymVolumeTable[registers[8 + v] & 15], whatever
\* the registers hold.
C15_PinnedVoiceAddsItsLevel ==
  last.op = "nextSample"
    => \A v \in 1..3 :
         TonePeriod(v) <= 5
           => last.arg[v] = ymVolumeTable(m.ymChip.registers[8 + v] % 16)

\* C15 (amended): on every sample a voice whose tone period is at most 5,
\* whose noise is switched off in the mixer, whose level is fixed (bit 4 of
\* register 8 + v clear) and that plays no DigiDrum adds the amplitude
\* ymVolumeTable[registers[8 + v] & 15], tone enabled or not.
C15_PinnedVoiceAddsItsLevel_Amended ==
  last.op = "nextSample"
    => \A v \in 1..3 :
         (/\ TonePeriod(v) <= 5
          /\ BitSet(m.ymChip.registers[8], v + 2)
          /\ m.ymChip.registers[8 + v] < 16
          /\ ~m.ymChip.specialEffect[v].Drum)
           => last.arg[v] = ymVolumeTable(m.ymChip.registers[8 + v] % 16)

\* C15 witness: voice A, tone enabled with period 3, noise off, level 15,
\* has added 10922 to a sample.
C15_PinnedVoiceHeard ==
  /\ last.op = "nextSample"
  /\ TonePeriod(1) = 3
  /\ m.ymChip.registers[8] = 254
  /\ m.ymChip.registers[9] = 15
  /\ last.arg[1] = 10922

\* C18 (refuted by the code): in every state of the chip a tone voice whose
\* step is zero has its phase accumulator at 0x80000000, and the step is
\* zero exactly when the tone period is at most 5.
C18_ZeroStepIffSmallPeriod ==
  \A v \in 1..3 :
    /\ m.ymChip.step[v] = U32Zero => m.ymChip.pos[v] = U32(32768, 0)
    /\ m.ymChip.step[v] = U32Zero <=> TonePeriod(v) <= 5

\* C17: while a loaded player is paused (after Pause or Stop), Update(buf, n)
\* writes n zeros and leaves the whole player as it was: currentFrame,
\* innerSamplePos, the over flag and the chip with its registers and phase
\* accumulators.
C17_PausedUpdateChangesNothing ==
  [][(m.bMusicOk /\ m.bPause /\ last'.op = "Update")
       => /\ m' = m
          /\ last'.fault = "none"
          /\ last'.out = [i \in 1..last'.arg |-> 0]]_vars

\* C17 witness: a song paused after its first frames, then asked for samples.
C17_PausedMidSong ==
  /\ last.op = "Update" /\ last.arg > 0
  /\ m.bMusicOk /\ m.bPause /\ ~m.bMusicOver
  /\ m.currentFrame > 0
  /\ last.out = [i \in 1..last.arg |-> 0]

\* C19 (refuted by the code): between the calls of Update on a playing
\* register-stream song, 0 <= innerSamplePos < vblNbSample (the first half
\* of the claim; the count of played frames rests on it).
C19_InnerPosBelowVbl ==
  (/\ m.bMusicOk /\ ~m.bPause /\ ~m.bMusicOver
   /\ last.fault = "none"
   /\ m.songType >= YM_V2 /\ m.songType < YM_VMAX
   /\ m.playerRate > 0)
    => /\ 0 <= m.innerSamplePos
       /\ m.innerSamplePos < m.replayRate \div m.playerRate

\* A loaded register-stream song that can be sought.
SeekableSong ==
  m.bMusicOk /\ IsSeekable(m) /\ m.songType >= YM_V2 /\ m.songType < YM_VMAX

C21_OneEffectAVoice ==
  \A v \in 1..3 :
    ~(m.ymChip.specialEffect[v].Sid /\ m.ymChip.specialEffect[v].Drum)

\* audio.Player: its fields playing and paused, the calls of Open and Close on
\* its output, the place of the control goroutine inside Stop (ctl) and the
\* place of each audioLoop goroutine started so far (loop): "none" not
\* started, "check" at the test of p.playing, "compute" before Compute,
\* "over" after Compute returned false, "write" before output.Write, "send"
\* at the deferred p.done <- true, "exited" after it.  The fields p.mu guards
\* are read and written in one step by whoever holds it.
MaxStart == 2

MaxAudioOps == 4

AudioPlayer0 ==
  [playing |-> FALSE, paused |-> FALSE, opens |-> 0, closes |-> 0,
   ctl |-> "idle", loop |-> [k \in 1..MaxStart |-> "none"], ops |-> 0]

\* Player.Start: "already playing", the error of output.Open, or the output
\* opened, playing set and a new audioLoop goroutine.
PlayerStart(openOk) ==
  /\ g.ctl = "idle" /\ g.ops < MaxAudioOps
  /\ \E k \in 1..MaxStart :
       /\ g.loop[k] = "none"
       /\ \A j \in 1..(k - 1) : g.loop[j] # "none"
       /\ g' = IF g.playing \/ ~openOk
               THEN [g EXCEPT !.ops = @ + 1]
               ELSE [g EXCEPT !.ops = @ + 1, !.opens = @ + 1,
                              !.playing = TRUE, !.loop[k] = "check"]
  /\ last' = [Call("Player.Start", openOk) EXCEPT
                !.err = IF g.playing THEN "already playing"
                        ELSE IF ~openOk THEN "open failed" ELSE "none"]
  /\ UNCHANGED <<m, loadErr, h, emitted, trk>>

\* Player.Stop up to the unlock: it returns when playing is false, else it
\* clears playing and goes on to wait.
PlayerStopLock ==
  /\ g.ctl = "idle" /\ g.ops < MaxAudioOps
  /\ IF ~g.playing
     THEN /\ g' = [g EXCEPT !.ops = @ + 1]
          /\ last' = Call("Player.Stop", 0)
     ELSE /\ g' = [g EXCEPT !.ops = @ + 1, !.playing = FALSE, !.ctl = "recv"]
          /\ UNCHANGED last
  /\ UNCHANGED <<m, loadErr, h, emitted, trk>>

\* <-p.done in Stop: the channel has no buffer, so the receive happens with
\* the send of an audioLoop that is at its deferred send.
PlayerStopWait(k) ==
  /\ g.ctl = "recv" /\ g.loop[k] = "send"
  /\ g' = [g EXCEPT !.ctl = "close", !.loop[k] = "exited"]
  /\ UNCHANGED <<m, last, loadErr, h, emitted, trk>>

\* p.output.Close() and the return of Stop.
PlayerStopClose ==
  /\ g.ctl = "close"
  /\ g' = [g EXCEPT !.ctl = "idle", !.closes = @ + 1]
  /\ last' = Call("Player.Stop", 1)
  /\ UNCHANGED <<m, loadErr, h, emitted, trk>>

\* Player.Pause and Player.Resume.
PlayerPause(b) ==
  /\ g.ctl = "idle" /\ g.ops < MaxAudioOps
  /\ g' = [g EXCEPT !.ops = @ + 1, !.paused = b]
  /\ last' = Call(IF b THEN "Player.Pause" ELSE "Player.Resume", 0)
  /\ UNCHANGED <<m, loadErr, h, emitted, trk>>

\* audioLoop, the locked head of a turn: break when playing is false, else
\* read paused.
audioLoopCheck(k) ==
  /\ g.loop[k] = "check"
  /\ g' = [g EXCEPT !.loop[k] = IF ~g.playing THEN "send"
                                ELSE IF g.paused THEN "write"
                                ELSE "compute"]
  /\ UNCHANGED <<m, last, loadErr, h, emitted, trk>>

\* computeMethod.Call: true, or false when the song is over.
audioLoopCompute(k, more) ==
  /\ g.loop[k] = "compute"
  /\ g' = [g EXCEPT !.loop[k] = IF more THEN "write" ELSE "over"]
  /\ UNCHANGED <<m, last, loadErr, h, emitted, trk>>

\* The song is over: playing is cleared under the lock and the loop breaks.
audioLoopOver(k) ==
  /\ g.loop[k] = "over"
  /\ g' = [g EXCEPT !.playing = FALSE, !.loop[k] = "send"]
  /\ UNCHANGED <<m, last, loadErr, h, emitted, trk>>

\* p.output.Write(buffer), then the next turn.
audioLoopWrite(k) ==
  /\ g.loop[k] = "write"
  /\ g' = [g EXCEPT !.loop[k] = "check"]
  /\ UNCHANGED <<m, last, loadErr, h, emitted, trk>>

\* A new audio.Player on a new StSound.
InitAudio ==
  /\ m = NewYmMusic(ReplayRate)
  /\ last = Call("NewPlayer", 0)
  /\ loadErr = "unset"
  /\ h = <<>>
  /\ emitted = 0
  /\ trk = FALSE
  /\ g = AudioPlayer0

NextAudio ==
  \/ \E openOk \in BOOLEAN : PlayerStart(openOk)
  \/ PlayerStopLock
  \/ \E k \in 1..MaxStart : PlayerStopWait(k)
  \/ PlayerStopClose
  \/ \E b \in BOOLEAN : PlayerPause(b)
  \/ \E k \in 1..MaxStart : audioLoopCheck(k)
  \/ \E k \in 1..MaxStart, more \in BOOLEAN : audioLoopCompute(k, more)
  \/ \E k \in 1..MaxStart : audioLoopOver(k)
  \/ \E k \in 1..MaxStart : audioLoopWrite(k)

SpecAudio == InitAudio /\ [][NextAudio]_vars

\* The StreamingOtoOutput objects of the process (for each, whether player,
\* writer and reader are set, and closed) and the package variables
\* globalContext (set or nil) and globalPlayers.
MaxOutputs == 2

MaxOutputOps == 4

Outputs0 ==
  [out |-> [o \in 1..MaxOutputs |->
              [player |-> FALSE, writer |-> FALSE, reader |-> FALSE,
               closed |-> FALSE]],
   globalContext |-> FALSE, globalPlayers |-> 0, ops |-> 0]

\* StreamingOtoOutput.Open: "stream already open" when player is set; the
\* pipe is made, then the context is taken or created (contextOk: whether
\* oto.NewContext succeeds when there is none) and the counter incremented.
OutputOpen(o, contextOk) ==
  /\ g.ops < MaxOutputOps
  /\ IF g.out[o].player
     THEN /\ g' = [g EXCEPT !.ops = @ + 1]
          /\ last' = [Call("Output.Open", o) EXCEPT
                        !.err = "stream already open"]
     ELSE IF ~g.globalContext /\ ~contextOk
     THEN /\ g' = [g EXCEPT !.ops = @ + 1, !.out[o].reader = TRUE,
                            !.out[o].writer = TRUE]
          /\ last' = [Call("Output.Open", o) EXCEPT
                        !.err = "failed to create oto context"]
     ELSE /\ g' = [g EXCEPT !.ops = @ + 1,
                            !.out[o] = [player |-> TRUE, writer |-> TRUE,
                                        reader |-> TRUE, closed |-> FALSE],
                            !.globalContext = TRUE,
                            !.globalPlayers = @ + 1]
          /\ last' = Call("Output.Open", o)
  /\ UNCHANGED <<m, loadErr, h, emitted, trk>>

\* StreamingOtoOutput.Close: nothing when closed is set; else closed is set,
\* writer, player and reader are closed and cleared, the counter decremented.
OutputClose(o) ==
  /\ g.ops < MaxOutputOps
  /\ g' = IF g.out[o].closed
          THEN [g EXCEPT !.ops = @ + 1]
          ELSE [g EXCEPT !.ops = @ + 1,
                         !.out[o] = [player |-> FALSE, writer |-> FALSE,
                                     reader |-> FALSE, closed |-> TRUE],
                         !.globalPlayers = @ - 1]
  /\ last' = Call("Output.Close", o)
  /\ UNCHANGED <<m, loadErr, h, emitted, trk>>

\* StreamingOtoOutput.Write: "stream not open" when closed is set or writer
\* is nil, else the bytes go to the pipe.
OutputWrite(o) ==
  /\ g.ops < MaxOutputOps
  /\ g' = [g EXCEPT !.ops = @ + 1]
  /\ last' = [Call("Output.Write", o) EXCEPT
                !.err = IF g.out[o].closed \/ ~g.out[o].writer
                        THEN "stream not open" ELSE "none"]
  /\ UNCHANGED <<m, loadErr, h, emitted, trk>>

\* The process before any output is opened.
InitOutputs ==
  /\ m = <<>>
  /\ last = Call("NewStreamingOtoOutput", 0)
  /\ loadErr = "unset"
  /\ h = <<>>
  /\ emitted = 0
  /\ trk = FALSE
  /\ g = Outputs0

NextOutputs ==
  \/ \E o \in 1..MaxOutputs, contextOk \in BOOLEAN : OutputOpen(o, contextOk)
  \/ \E o \in 1..MaxOutputs : OutputClose(o)
  \/ \E o \in 1..MaxOutputs : OutputWrite(o)

SpecOutputs == InitOutputs /\ [][NextOutputs]_vars

\* YMPlayerGUI: whether p.player is set, p.playing, p.audioOutput (0 for nil,
\* else the number of the output), the outputs made so far ("none", "open",
\* "closed"), and the place of each goroutine (pc): goroutine 0 is the
\* window's, "idle" or inside playFromIndex before loadYMData ("load") or
\* before play ("play"); goroutine k > 0 is the playbackLoop that play()
\* started with output k: "none" not started, "lock" before a turn, "test"
\* at the test of p.audioOutput after the unlock, "write" before
\* p.audioOutput.Write, "next" before playNext, "load" and "play" inside its
\* playFromIndex, "endstop" before the stop() at the end of the list,
\* "exited".  seen[k] is the output loop k found at its test.  Every function
\* that locks p.mutex holds it from its first to its last statement, so each
\* is one step.
MaxPlay == 2

MaxGuiOps == 4

Gui0 ==
  [player |-> TRUE, playing |-> FALSE, audioOutput |-> 0,
   outs |-> [k \in 1..MaxPlay |-> "none"],
   pc |-> [c \in 0..MaxPlay |-> IF c = 0 THEN "idle" ELSE "none"],
   seen |-> [k \in 1..MaxPlay |-> 0], ops |-> 0]

\* The first output and loop number not used yet (MaxPlay + 1 when none).
FreeLoop(s) ==
  IF \E k \in 1..MaxPlay : s.pc[k] = "none"
  THEN CHOOSE k \in 1..MaxPlay :
         s.pc[k] = "none" /\ \A j \in 1..(k - 1) : s.pc[j] # "none"
  ELSE MaxPlay + 1

\* YMPlayerGUI.play: nothing without a player or when playing; a new output,
\* dropped when Open fails; else playing is set and playbackLoop started.
guiPlay(s, openOk) ==
  IF ~s.player \/ s.playing THEN s
  ELSE IF ~openOk THEN [s EXCEPT !.audioOutput = 0]
  ELSE [s EXCEPT !.audioOutput = FreeLoop(s),
                 !.outs[FreeLoop(s)] = "open",
                 !.playing = TRUE,
                 !.pc[FreeLoop(s)] = "lock"]

\* YMPlayerGUI.stop: playing is cleared; the output is closed and
\* p.audioOutput set to nil when playing was set.
guiStop(s) ==
  IF ~s.player THEN s
  ELSE IF s.playing /\ s.audioOutput # 0
  THEN [s EXCEPT !.playing = FALSE, !.outs[s.audioOutput] = "closed",
                 !.audioOutput = 0]
  ELSE [s EXCEPT !.playing = FALSE]

\* YMPlayerGUI.loadYMData: playback is stopped as in stop(), a new player is
\* made and is dropped when LoadMemory fails.
loadYMData(s, loadOk) ==
  IF s.playing /\ s.audioOutput # 0
  THEN [s EXCEPT !.playing = FALSE, !.outs[s.audioOutput] = "closed",
                 !.audioOutput = 0, !.player = loadOk]
  ELSE [s EXCEPT !.playing = FALSE, !.player = loadOk]

\* play() called by the window.
DoGuiPlay(openOk) ==
  /\ Alive /\ g.pc[0] = "idle" /\ g.ops < MaxGuiOps
  /\ FreeLoop(g) <= MaxPlay
  /\ g' = [guiPlay(g, openOk) EXCEPT !.ops = @ + 1]
  /\ last' = Call("play", openOk)
  /\ UNCHANGED <<m, loadErr, h, emitted, trk>>

\* stop() called by the window.
DoGuiStop ==
  /\ Alive /\ g.pc[0] = "idle" /\ g.ops < MaxGuiOps
  /\ g' = [guiStop(g) EXCEPT !.ops = @ + 1]
  /\ last' = Call("stop", 0)
  /\ UNCHANGED <<m, loadErr, h, emitted, trk>>

\* playFromIndex called by goroutine c (the window, or a loop through
\* playNext): its stop().
PlayFromIndexStop(c) ==
  /\ Alive
  /\ \/ c = 0 /\ g.pc[0] = "idle" /\ g.ops < MaxGuiOps
     \/ c > 0 /\ g.pc[c] = "next"
  /\ g' = [guiStop(g) EXCEPT !.pc[c] = "load",
                             !.ops = IF c = 0 THEN @ + 1 ELSE @]
  /\ UNCHANGED <<m, last, loadErr, h, emitted, trk>>

\* playFromIndex: its loadYMData.
PlayFromIndexLoad(c, loadOk) ==
  /\ Alive /\ g.pc[c] = "load"
  /\ g' = [loadYMData(g, loadOk) EXCEPT !.pc[c] = "play"]
  /\ UNCHANGED <<m, last, loadErr, h, emitted, trk>>

\* playFromIndex: its play(), and the return.
PlayFromIndexPlay(c, openOk) ==
  /\ Alive /\ g.pc[c] = "play"
  /\ FreeLoop(g) <= MaxPlay
  /\ g' = [guiPlay(g, openOk) EXCEPT
             !.pc[c] = IF c = 0 THEN "idle" ELSE "exited"]
  /\ last' = Call("playFromIndex", c)
  /\ UNCHANGED <<m, loadErr, h, emitted, trk>>

\* One locked turn of playbackLoop k: the loop ends when playing is false;
\* else Compute fills the buffer and returns true ("more"), or false with
\* the repeat mode and the place in the list sending the loop to Restart
\* ("repeat"), to playNext ("next") or to the stop at the end ("end").
playbackLoopTurn(k, res) ==
  /\ Alive /\ g.pc[k] = "lock"
  /\ IF ~g.playing
     THEN /\ g' = [g EXCEPT !.pc[k] = "exited"]
          /\ UNCHANGED last
     ELSE /\ g' = CASE res = "next" -> [g EXCEPT !.pc[k] = "next"]
                    [] res = "end" -> [g EXCEPT !.pc[k] = "endstop",
                                                !.playing = FALSE]
                    [] OTHER -> [g EXCEPT !.pc[k] = "test"]
          /\ last' = [Call("Compute", k) EXCEPT !.ret = (res = "more")]
  /\ UNCHANGED <<m, loadErr, h, emitted, trk>>

\* The stop() of a loop at the end of the list, and its return.
playbackLoopEndStop(k) ==
  /\ Alive /\ g.pc[k] = "endstop"
  /\ g' = [guiStop(g) EXCEPT !.pc[k] = "exited"]
  /\ UNCHANGED <<m, last, loadErr, h, emitted, trk>>

\* "if p.audioOutput != nil", read without the lock.
playbackLoopTest(k) ==
  /\ Alive /\ g.pc[k] = "test"
  /\ g' = [g EXCEPT !.seen[k] = g.audioOutput,
                    !.pc[k] = IF g.audioOutput # 0 THEN "write" ELSE "lock"]
  /\ UNCHANGED <<m, last, loadErr, h, emitted, trk>>

\* "p.audioOutput.Write(p.buffer)", without the lock: the receiver is the
\* value the test read or the value the field has now (reread), as the two
\* unordered reads of the field allow.  A nil receiver panics; Write on a
\* closed output returns "stream not open".
playbackLoopWrite(k, reread) ==
  /\ Alive /\ g.pc[k] = "write"
  /\ g' = [g EXCEPT !.pc[k] = "lock"]
  /\ \E target \in {IF reread THEN g.audioOutput ELSE g.seen[k]} :
       last' = [Call("Write", <<k, target>>) EXCEPT
                  !.fault = IF target = 0 THEN "nil pointer dereference"
                            ELSE "none",
                  !.err = IF target # 0 /\ g.outs[target] = "closed"
                          THEN "stream not open" ELSE "none"]
  /\ UNCHANGED <<m, loadErr, h, emitted, trk>>

\* The window with a song loaded and nothing playing.
InitGui ==
  /\ m = NewYmMusic(ReplayRate)
  /\ last = Call("loadYMData", 0)
  /\ loadErr = "none"
  /\ h = <<>>
  /\ emitted = 0
  /\ trk = FALSE
  /\ g = Gui0

NextGui ==
  \/ \E openOk \in BOOLEAN : DoGuiPlay(openOk)
  \/ DoGuiStop
  \/ \E c \in 0..MaxPlay : PlayFromIndexStop(c)
  \/ \E c \in 0..MaxPlay, loadOk \in BOOLEAN : PlayFromIndexLoad(c, loadOk)
  \/ \E c \in 0..MaxPlay, openOk \in BOOLEAN : PlayFromIndexPlay(c, openOk)
  \/ \E k \in 1..MaxPlay, res \in {"more", "repeat", "next", "end"} :
       playbackLoopTurn(k, res)
  \/ \E k \in 1..MaxPlay : playbackLoopEndStop(k)
  \/ \E k \in 1..MaxPlay : playbackLoopTest(k)
  \/ \E k \in 1..MaxPlay, reread \in BOOLEAN : playbackLoopWrite(k, reread)

SpecGui == InitGui /\ [][NextGui]_vars

\* The frame player() reads in the state, and the same frame with the
\* action of its first effect slot (bits 7 and 6 of byte 1) set to SID.
FrameToPlay ==
  SubSeq(m.pDataStream, playerFrame(m) * m.streamInc + 1,
         (playerFrame(m) + 1) * m.streamInc)

FrameToPlayAsSid == [FrameToPlay EXCEPT ![2] = @ % 64]

\* C22 (refuted by the code): a YM6 frame whose first effect slot is a
\* Sinus-SID (action bits 0x80) with a voice selected and prediv * count
\* non-zero leaves the chip as the same frame with action 0x00 (SID) does.
C22_SinusSidIsSid ==
  [][(/\ last'.op = "player"
      /\ m.songType = YM_V6
      /\ FrameToPlay[2] \div 64 = 2
      /\ Bits(FrameToPlay[2], 4, 3) # 0
      /\ mfpPrediv[Bits(FrameToPlay[7], 5, 7) + 1] * FrameToPlay[15] # 0)
       => m'.ymChip = playFrame(m, FrameToPlayAsSid)]_vars

\* The step the SID and the Sync-Buzzer are to have for a timer frequency:
\* timerFreq * 2^31 / replayFrequency, the product taken in full and the
\* quotient kept modulo 2^32.
WideTimerStep(timerFreq) ==
  ShlDivStep(ShlDivStep(ShlDivStep(ShlDivStep(ShlDivStep(
    [q |-> ToU32(timerFreq \div m.ymChip.replayFrequency),
     r |-> timerFreq % m.ymChip.replayFrequency],
    7, m.ymChip.replayFrequency), 7, m.ymChip.replayFrequency),
    7, m.ymChip.replayFrequency), 7, m.ymChip.replayFrequency),
    3, m.ymChip.replayFrequency).q

\* C23 (refuted by the code): SidStart(voice, timerFreq, vol) leaves the step
\* of the voice at timerFreq * 2^31 / replayFrequency for the timer
\* frequencies a frame can give.
C23_SidStepIsTimerStep ==
  last.op = "SidStart"
    => m.ymChip.specialEffect[last.arg[1] + 1].SidStep
         = WideTimerStep(last.arg[2])

\* C24 (refuted by the code): DrumStart leaves the step of the drum at
\* (drumFreq * 2^15) / replayFrequency for the drum frequencies a frame can
\* give.
C24_DrumStepIsQ15 ==
  last.op = "DrumStart"
    => m.ymChip.specialEffect[last.arg[1] + 1].DrumStep
         = ShlDiv(last.arg[2], DRUM_PREC, m.ymChip.replayFrequency)

\* The register stream as a file stores it: the bytes after the 4-byte id of
\* a YM2!/YM3!/YM3b file, the bytes after the 34-byte header and the three
\* empty strings of a YM5!/YM6! file without drums.
StoredStream(file) ==
  IF SubSeq(file, 1, 4) \in {TagYM5, TagYM6}
  THEN SliceFrom(file, 37) ELSE SliceFrom(file, 4)

\* Whether the file stores its stream register-major: always for
\* YM2!/YM3!/YM3b, by bit A_STREAMINTERLEAVED of the attributes at bytes
\* 16..19 for YM5!/YM6!.
StoredInterleaved(file) ==
  IF SubSeq(file, 1, 4) \in {TagYM5, TagYM6}
  THEN BitSet(readBigEndian32(SubSeq(file, 17, 20)), A_STREAMINTERLEAVED)
  ELSE TRUE

LoadedOk == last.op = "LoadMemory" /\ last.err = "none" /\ last.fault = "none"

\* C25: after every successful load the INTERLEAVED flag is clear; byte
\* f * streamInc + r of the loaded stream is byte r * nbFrame + f of a stream
\* stored register-major, and a stream stored frame-major is loaded unchanged.
C25_LoadedStreamIsFrameMajor ==
  LoadedOk =>
    /\ ~BitSet(m.attrib, A_STREAMINTERLEAVED)
    /\ IF StoredInterleaved(Files[last.arg])
       THEN \A f \in 0..(m.nbFrame - 1) : \A r \in 0..(m.streamInc - 1) :
              m.pDataStream[f * m.streamInc + r + 1]
                = StoredStream(Files[last.arg])[r * m.nbFrame + f + 1]
       ELSE m.pDataStream = StoredStream(Files[last.arg])

\* A file of two frames or more stored register-major is loaded and its
\* loaded stream differs from the stored one.
C25_InterleavedLoaded ==
  /\ LoadedOk
  /\ StoredInterleaved(Files[last.arg])
  /\ m.nbFrame >= 2
  /\ m.pDataStream # SubSeq(StoredStream(Files[last.arg]), 1,
                            m.nbFrame * m.streamInc)

\* The member a is packed by -lh4- or -lh5- and its first block announces
\* more code lengths for its first tree than that tree has symbols: the TBIT
\* bits that follow the 16 bits of the block size are above NT.
AnnouncesTooManyLengths(a) ==
  /\ a[6] \in {48 + 4, 48 + 5}
  /\ Len(Header(a).body) >= 3
  /\ Header(a).body[3] \div (2^(8 - TBIT)) > NT

\* C26 (refuted by the code): Decompress of a member whose Huffman
\* description is inconsistent returns the error CorruptStream and reads or
\* writes no array out of range.
C26_InconsistentIsCorruptStream ==
  (last.op = "Decompress" /\ AnnouncesTooManyLengths(last.arg))
    => (last.fault = "none" /\ last.err = "CorruptStream")

\* C27 (refuted by the code): when Play() has returned on a loaded song that
\* is as Stop() followed by Play() leave it (frame 0, no sample of a frame
\* pending, not paused), an Update of one sample or more returns true.
C27_StopPlayThenUpdatePlays ==
  (last.op = "Play" /\ m.bMusicOk /\ m = play(stop(m)))
    => \A n \in 1..MaxN : Update(m, h, n).ret

\* C28 (refuted by the code): once Player.Stop has returned, no audioLoop
\* goroutine is running or blocked at its send on done, and output.Close has
\* been called once for each successful Start.
C28_StopLeavesNoLoopAndClosed ==
  (last.op = "Player.Stop" /\ g.opens > 0)
    => /\ \A k \in 1..MaxStart : g.loop[k] \in {"none", "exited"}
       /\ g.closes = g.opens

\* C30 (refuted by the code): globalPlayers is the number of outputs that are
\* open (their player is set) and is never negative.
C30_CounterIsOpenOutputs ==
  /\ g.globalPlayers = Cardinality({o \in 1..MaxOutputs : g.out[o].player})
  /\ g.globalPlayers >= 0

\* C29 (refuted by the code): a playbackLoop does not compute once a later
\* play() has started another loop, and no loop calls Write on an output
\* that is closed or on a nil p.audioOutput.
C29_OneLoopAndOpenOutput ==
  /\ last.op = "Compute"
       => \A j \in (last.arg + 1)..MaxPlay : g.pc[j] = "none"
  /\ last.op = "Write" => (last.fault = "none" /\ last.err = "none")

====
